---- MODULE Spec2Model ----
(***************************************************************************)
(* HIVE core orchestration: task-graph manager, scheduler, communication   *)
(* bus, orchestrator router (MessageProcessor), result processor and the   *)
(* worker run-loops, modelled from src/src-tauri/src.                      *)
(*                                                                         *)
(* Rust Option<T> values are sequences of length at most one: <<>> is None *)
(* and <<x>> is Some(x).  Uuids are natural numbers handed out by counters *)
(* that never reuse a value.  A HashMap of graphs holding a HashMap of     *)
(* nodes and a Vec of edges is flattened: every node and every edge        *)
(* carries the id of the graph that holds it.                              *)
(***************************************************************************)
EXTENDS Integers, Sequences, FiniteSets, TLC

(***************************************************************************)
(* Bounds of the model.                                                    *)
(***************************************************************************)
MaxLoaded == 1     \* rows of the tasks table found at start-up
MaxNodes == 2      \* node ids ever handed out
MaxEdges == 1      \* edge ids ever handed out
MaxWorkers == 1    \* calls of execute_agent_task (one worker, one graph each)
MaxRetries == 1    \* largest max_retries of a persisted retry policy
MaxBus == 1        \* broadcast messages retained for the slowest subscriber
MaxResults == 1    \* (task_id, content) pairs waiting in the result channel
MaxTeam == 2       \* workers of a Coder and Validator team
MaxSubNodes == 4   \* node ids ever handed out where decompositions are handled
MaxSubEdges == 2   \* edge ids ever handed out where decompositions are handled
MaxQueued == 2     \* rows of the tasks table where the scheduler has a backlog

NodeIds == 1..MaxNodes
EdgeIds == 1..MaxEdges
WorkerIds == 1..MaxWorkers
DefaultGraph == 0  \* "default_graph", the graph of rows without a sprint id

None == <<>>
Some(x) == <<x>>

Contents == {"d1", "d2"}           \* deliverable contents and deliverable keys
SpawnRoles == {"SimpleWorker", "Researcher"}

VARIABLES
    graphs,                  \* ids of the TaskGraphs in active_task_graphs
    nodes,                   \* node id -> TaskNode (of the graph nodes[n].graph)
    edges,                   \* set of TaskEdges
    next_node_id,            \* next fresh node Uuid
    next_edge_id,            \* next fresh edge Uuid
    task_rows,               \* node id -> TaskNode (the tasks table)
    edge_rows,               \* set of TaskEdges (the task_dependencies table)
    sprints,                 \* sprint id -> Sprint (TaskGraphManager::sprints)
    sprint_rows,             \* sprint id -> Sprint (the sprints table)
    sprint_calls,            \* start_sprint / complete_sprint calls under way
    delegated_task_mapping,  \* delegated task id -> delegating agent id
    agents,                  \* agent id -> worker (registry and worker state)
    bus,                     \* broadcast channel: retained messages, oldest first
    cursor,                  \* subscriber -> messages of bus already received
                             \* (below zero: messages it missed, see Lagged)
    task_results,            \* mpsc channel router -> result processor
    request_queue,           \* mpsc channel of BusRequests (upstream)
    request_receiver_alive,  \* whether the BusRequest receiver still exists
    send_errors,             \* upstream sends that returned Err: {<<agent, kind>>}
    sched_pc,                \* scheduler: "idle" or "loop" (inside the for loop)
    tasks_to_schedule        \* scheduler: snapshot still to be processed

vars == <<graphs, nodes, edges, next_node_id, next_edge_id, task_rows, edge_rows,
          sprints, sprint_rows,
          sprint_calls, delegated_task_mapping,
          agents, bus, cursor, task_results, request_queue, request_receiver_alive,
          send_errors, sched_pc, tasks_to_schedule>>

sprint_vars == <<sprints, sprint_rows, sprint_calls>>
table_vars == <<task_rows, edge_rows>>
graph_vars == <<graphs, nodes, edges, next_node_id, next_edge_id, table_vars, sprint_vars>>
sched_vars == <<sched_pc, tasks_to_schedule>>
upstream_vars == <<request_queue, request_receiver_alive, send_errors>>

(***************************************************************************)
(* Data: specifications, nodes, edges.                                     *)
(***************************************************************************)
\* priority is None wherever the code leaves it so (sub-task and delegated
\* specifications); execute_agent_task sets it with WithPriority.
\* needs_research: the description contains "needs research on".
TaskSpecification(role, agent_role, mappings) ==
    [required_role |-> role, required_agent_role |-> agent_role,
     input_mappings |-> mappings, priority |-> None, needs_research |-> FALSE]

NeedsResearch(task_spec) == [task_spec EXCEPT !.needs_research = TRUE]

WithPriority(task_spec, p) == [task_spec EXCEPT !.priority = Some(p)]

unwrap_or(opt, default) == IF opt = None THEN default ELSE opt[1]

InputMapping(source, key) == [source_task_id |-> source, deliverable_key |-> key]

\* The TaskNode built by add_task_node_to_graph.
NewTaskNode(graph_id, task_spec) ==
    [graph |-> graph_id,
     task_spec |-> task_spec,
     status |-> "PendingDependencies",
     priority |-> unwrap_or(task_spec.priority, 0),
     inputs |-> <<>>,
     outputs |-> <<>>,
     retry_count |-> 0,
     retry_policy |-> None,
     assigned_agent_id |-> None,
     error_message |-> None]

TaskEdge(id, graph_id, from, to) ==
    [id |-> id, graph |-> graph_id, from_node_id |-> from, to_node_id |-> to]

\* The manager's in-memory graph state as one value, for the operations below.
TGM == [graphs |-> graphs, nodes |-> nodes, edges |-> edges,
        next_node_id |-> next_node_id, next_edge_id |-> next_edge_id,
        task_rows |-> task_rows, edge_rows |-> edge_rows]

GraphNodes(m, graph_id) == {n \in DOMAIN m.nodes : m.nodes[n].graph = graph_id}

Extend(f, k, v) == [x \in DOMAIN f \cup {k} |-> IF x = k THEN v ELSE f[x]]
Without(f, k) == [x \in DOMAIN f \ {k} |-> f[x]]

(***************************************************************************)
(* TaskGraphManager operations.  save_ok is the outcome of the persistence *)
(* write the operation makes first.  Each returns [ok, m, id].             *)
(***************************************************************************)
\* The row is written first; a missing graph is found only afterwards.
add_task_node_to_graph(m, graph_id, task_spec, save_ok) ==
    IF ~save_ok
    THEN [ok |-> FALSE, m |-> m, id |-> 0]
    ELSE IF graph_id \notin m.graphs
    THEN [ok |-> FALSE,
          m |-> [m EXCEPT !.task_rows = Extend(@, m.next_node_id,
                                               NewTaskNode(graph_id, task_spec)),
                          !.next_node_id = @ + 1],
          id |-> 0]
    ELSE [ok |-> TRUE,
          m |-> [m EXCEPT !.nodes = Extend(@, m.next_node_id,
                                           NewTaskNode(graph_id, task_spec)),
                          !.task_rows = Extend(@, m.next_node_id,
                                               NewTaskNode(graph_id, task_spec)),
                          !.next_node_id = @ + 1],
          id |-> m.next_node_id]

\* add_task_edge_to_graph pushing the edge before it is saved.
add_task_edge_to_graph_PushFirst(m, graph_id, from, to, save_ok) ==
    IF \/ graph_id \notin m.graphs
       \/ from \notin GraphNodes(m, graph_id)
       \/ to \notin GraphNodes(m, graph_id)
    THEN [ok |-> FALSE, m |-> m, id |-> 0]
    ELSE [ok |-> save_ok,
          m |-> [m EXCEPT !.edges = @ \cup {TaskEdge(m.next_edge_id, graph_id, from, to)},
                          !.next_edge_id = @ + 1],
          id |-> m.next_edge_id]

add_task_edge_to_graph(m, graph_id, from, to, save_ok) ==
    IF \/ graph_id \notin m.graphs
       \/ from \notin GraphNodes(m, graph_id)
       \/ to \notin GraphNodes(m, graph_id)
       \/ ~save_ok
    THEN [ok |-> FALSE, m |-> m, id |-> 0]
    ELSE [ok |-> TRUE,
          m |-> [m EXCEPT !.edges = @ \cup {TaskEdge(m.next_edge_id, graph_id, from, to)},
                          !.edge_rows = @ \cup {TaskEdge(m.next_edge_id, graph_id, from, to)},
                          !.next_edge_id = @ + 1],
          id |-> m.next_edge_id]

remove_task_node(m, graph_id, node_id) ==
    IF graph_id \in m.graphs /\ node_id \in GraphNodes(m, graph_id)
    THEN [m EXCEPT !.nodes = Without(@, node_id)]
    ELSE m

remove_task_edge(m, graph_id, edge_id) ==
    [m EXCEPT !.edges = {e \in @ : ~(e.graph = graph_id /\ e.id = edge_id)}]

find_graph_id_for_task(m, task_id) ==
    IF task_id \in DOMAIN m.nodes THEN Some(m.nodes[task_id].graph) ELSE None

(***************************************************************************)
(* Messages.  One record shape for every MessageContent variant; fields a  *)
(* variant does not have hold a neutral value.                             *)
(***************************************************************************)
NoSpec == TaskSpecification("SimpleWorker", None, <<>>)

Message(kind, sender, receiver, task_id, deliverable, agent_id, spec, subs, sub_edges) ==
    [kind |-> kind, sender_id |-> sender, receiver_id |-> receiver,
     task_id |-> task_id, deliverable |-> deliverable, agent_id |-> agent_id,
     sub_task_spec |-> spec, sub_tasks |-> subs, sub_task_edges |-> sub_edges]

Orchestrator == 0   \* sender id "orchestrator"; also the router's subscription

TaskAssignment(agent_id, task_id) ==
    Message("TaskAssignment", Orchestrator, Some(agent_id), task_id, "", agent_id,
            NoSpec, <<>>, <<>>)
TaskCompleted(sender, task_id, deliverable) ==
    Message("TaskCompleted", sender, None, task_id, deliverable, sender,
            NoSpec, <<>>, <<>>)
TaskFailed(sender, receiver, task_id, agent_id) ==
    Message("TaskFailed", sender, receiver, task_id, "", agent_id, NoSpec, <<>>, <<>>)
DelegateSubTask(sender, parent_task_id, spec) ==
    Message("DelegateSubTask", sender, None, parent_task_id, "", sender, spec, <<>>, <<>>)
SubTasksGenerated(sender, original_task_id, subs, sub_edges) ==
    Message("SubTasksGenerated", sender, None, original_task_id, "", sender,
            NoSpec, subs, sub_edges)
DelegatedTaskCompletedNotification(delegating_agent_id, completed_sub_task_id) ==
    Message("DelegatedTaskCompletedNotification", Orchestrator, Some(delegating_agent_id),
            completed_sub_task_id, "", delegating_agent_id, NoSpec, <<>>, <<>>)

\* InformationRequest{original_task_id, requesting_agent_id}.
RequestInformation(sender, receiver, original_task_id, requesting_agent_id) ==
    Message("RequestInformation", sender, receiver, original_task_id, "",
            requesting_agent_id, NoSpec, <<>>, <<>>)
\* InformationResponse{original_task_id, original_requesting_agent_id}.
ReturnInformation(sender, receiver, original_task_id, original_requesting_agent_id) ==
    Message("ReturnInformation", sender, receiver, original_task_id, "",
            original_requesting_agent_id, NoSpec, <<>>, <<>>)

(***************************************************************************)
(* Communication bus.  The broadcast channel keeps one buffer and one read *)
(* position per receiver; a message every receiver has read is dropped.    *)
(***************************************************************************)
Min(S) == CHOOSE x \in S : \A y \in S : x <= y

\* Compact releasing what the fastest receiver has read.
Compact_ReleasesUnread(b, c) ==
    LET k == CHOOSE x \in {c[s] : s \in DOMAIN c} : \A s \in DOMAIN c : c[s] <= x
    IN  [bus |-> SubSeq(b, k + 1, Len(b)), cursor |-> [s \in DOMAIN c |-> c[s] - k]]

\* Nothing is released while a receiver lags (its position is negative).
Compact(b, c) ==
    LET m == Min({c[s] : s \in DOMAIN c})
        k == IF m < 0 THEN 0 ELSE m
    IN  [bus |-> SubSeq(b, k + 1, Len(b)), cursor |-> [s \in DOMAIN c |-> c[s] - k]]

\* broadcast::Sender::send; the router's receiver always exists, so it is Ok.
BusSend(b, msgs) == b \o msgs

HasMessage(s) == s \in DOMAIN cursor /\ cursor[s] < Len(bus)
NextMessage(s) == bus[cursor[s] + 1]

\* The state of the channel after subscriber s took its next message and the
\* messages `published` were sent.
AfterReceive(s, published) ==
    Compact(BusSend(bus, published), [cursor EXCEPT ![s] = @ + 1])

\* CommunicationBus::new drops the only BusRequest receiver when it returns.
RequestReceiverAlive == FALSE

\* mpsc::Sender<BusRequest>::send of the messages `kinds` by agent a, in order:
\* queued while the receiver lives, Err(SendError) once it is dropped.
UpstreamSend(a, kinds) ==
    IF request_receiver_alive
    THEN /\ request_queue' = request_queue \o [i \in 1..Len(kinds) |-> <<a, kinds[i]>>]
         /\ send_errors' = send_errors
    ELSE /\ request_queue' = request_queue
         /\ send_errors' = send_errors \cup {<<a, kinds[i]>> : i \in 1..Len(kinds)}

(***************************************************************************)
(* Start-up: TaskGraphManager::new loads the persisted rows.  Edges are    *)
(* attached to the graph whose id equals the edge's from_node_id, which no *)
(* graph id is, so no edge is loaded.                                      *)
(***************************************************************************)
LoadedStatuses == {"PendingDependencies", "ReadyToExecute"}
LoadedPolicies == {None} \cup {Some(r) : r \in 1..MaxRetries}
LoadedMappings(n) ==
    IF n = 1 THEN {<<>>} ELSE {<<>>, <<InputMapping(n - 1, "d1")>>}

LoadedRows(n) ==
    {[NewTaskNode(DefaultGraph, TaskSpecification(role, Some(role), im))
        EXCEPT !.status = st, !.retry_policy = rp] :
        role \in SpawnRoles, im \in LoadedMappings(n),
        st \in LoadedStatuses, rp \in LoadedPolicies}

load_state_from_db(rows) ==
    /\ nodes = rows
    /\ graphs = IF DOMAIN rows = {} THEN {} ELSE {DefaultGraph}
    /\ edges = {}

\* The state after CoreOrchestrator::new when the tasks table holds at most
\* max rows, row n being one of Rows[n].
InitLoaded(Rows, max, loaded_sprints) ==
    /\ sprints = loaded_sprints
    /\ sprint_rows = loaded_sprints
    /\ sprint_calls = {}
    /\ edge_rows = {}
    /\ \E k \in 0..max :
         /\ \E rows \in [1..k -> UNION {Rows[n] : n \in 1..k}] :
              /\ \A n \in 1..k : rows[n] \in Rows[n]
              /\ task_rows = rows
              /\ load_state_from_db(rows)
         /\ next_node_id = k + 1
    /\ next_edge_id = 1
    /\ delegated_task_mapping = <<>>
    /\ agents = <<>>
    /\ bus = <<>>
    /\ cursor = [s \in {Orchestrator} |-> 0]
    /\ task_results = <<>>
    /\ request_queue = <<>>
    /\ request_receiver_alive = RequestReceiverAlive
    /\ send_errors = {}
    /\ sched_pc = "idle"
    /\ tasks_to_schedule = {}

\* Start-up with an empty sprints table.
InitFrom(Rows, max) == InitLoaded(Rows, max, <<>>)

Init == InitFrom([n \in 1..MaxLoaded |-> LoadedRows(n)], MaxLoaded)

(***************************************************************************)
(* Agents.  A worker is its registry entry plus the state of its run loop: *)
(* pc is "recv" (waiting on its broadcast receiver, components unlocked),  *)
(* "processing" (inside process_task, components locked) or "deadlocked"   *)
(* (waiting for the components lock its own task already holds).           *)
(***************************************************************************)
\* current_task and received_information are the BaseAgentComponents fields
\* of these names (the id of the task; whether a response is held).
NewAgent(role) ==
    [role |-> role, status |-> "Idle", pc |-> "recv",
     current_task |-> None, received_information |-> FALSE]

\* AgentManager::get_agent: "no longer functional", it returns None for every id.
get_agent(agent_id) == None

\* get_status goes through the components mutex of the worker.
Locked(a) == agents[a].pc # "recv"
Deadlocked(a) == agents[a].pc = "deadlocked"

\* Suitable not looking at the status.
Suitable_AnyStatus(a, required_role) ==
    required_role = None \/ agents[a].role = required_role[1]

Suitable(a, required_role) ==
    /\ agents[a].status \in {"Idle", "Ready"}
    /\ required_role = None \/ agents[a].role = required_role[1]

\* find_available_agent returning a worker of the role whatever its status.
find_available_agent_AnyStatus(required_role) ==
    {Some(a) : a \in {x \in DOMAIN agents : ~Locked(x) /\ Suitable_AnyStatus(x, required_role)}}
    \cup
    IF \A a \in DOMAIN agents : ~Locked(a) /\ ~Suitable_AnyStatus(a, required_role)
    THEN {None} ELSE {}

\* The results find_available_agent can return, over the iteration orders of
\* the agents map: the first suitable agent, or None once every agent was asked.
find_available_agent(required_role) ==
    {Some(a) : a \in {x \in DOMAIN agents : ~Locked(x) /\ Suitable(x, required_role)}}
    \cup
    IF \A a \in DOMAIN agents : ~Locked(a) /\ ~Suitable(a, required_role)
    THEN {None} ELSE {}

\* find_available_agent never returns when the iteration reaches a worker whose
\* components lock is never released.
FindBlocks == \E a \in DOMAIN agents : Deadlocked(a)

(***************************************************************************)
(* Scheduler: run_scheduling_cycle.                                        *)
(***************************************************************************)
TaskInput(content, source) == [data |-> content, source_deliverable_ids |-> <<source>>]

RECURSIVE ResolveInputs(_, _, _)
\* The loop over input_mappings; a Deliverable is its content.
ResolveInputs(m, graph_id, mappings) ==
    IF mappings = <<>> THEN [ok |-> TRUE, inputs |-> <<>>]
    ELSE LET mapping == Head(mappings)
             src == mapping.source_task_id
         IN  IF /\ graph_id \in m.graphs
                /\ src \in GraphNodes(m, graph_id)
                /\ \E i \in 1..Len(m.nodes[src].outputs) :
                       m.nodes[src].outputs[i] = mapping.deliverable_key
             THEN LET rest == ResolveInputs(m, graph_id, Tail(mappings))
                  IN  [ok |-> rest.ok,
                       inputs |-> IF rest.ok
                                  THEN <<TaskInput(mapping.deliverable_key, src)>> \o rest.inputs
                                  ELSE <<>>]
             ELSE [ok |-> FALSE, inputs |-> <<>>]

\* Lines 52-78: clone every node whose status is ReadyToExecute.
CollectReady(m) ==
    {[id |-> n, graph |-> m.nodes[n].graph, task_spec |-> m.nodes[n].task_spec] :
        n \in {x \in DOMAIN m.nodes : m.nodes[x].status = "ReadyToExecute"}}

\* MarkInputMappingFailed putting the node back in the queue.
MarkInputMappingFailed_Retry(node) ==
    [node EXCEPT !.status = IF node.retry_policy # None THEN "ReadyToExecute" ELSE "Failed",
                 !.error_message = Some("Input mapping failed")]

MarkInputMappingFailed(node) ==
    [node EXCEPT !.status = "Failed", !.error_message = Some("Input mapping failed")]

\* AssignTask forgetting the resolved inputs.
AssignTask_NoInputs(node, task_inputs, agent_id) ==
    [node EXCEPT !.status = "Executing", !.assigned_agent_id = Some(agent_id)]

\* AssignTask forgetting to record the agent.
AssignTask_NoAgent(node, task_inputs, agent_id) ==
    [node EXCEPT !.inputs = task_inputs, !.status = "Executing"]

AssignTask(node, task_inputs, agent_id) ==
    [node EXCEPT !.inputs = task_inputs,
                 !.status = "Executing",
                 !.assigned_agent_id = Some(agent_id)]

SchedCollect ==
    /\ sched_pc = "idle"
    /\ tasks_to_schedule' = CollectReady(TGM)
    /\ sched_pc' = IF CollectReady(TGM) = {} THEN "idle" ELSE "loop"
    /\ UNCHANGED <<graph_vars, delegated_task_mapping, agents, bus, cursor,
                   task_results, upstream_vars>>

SchedAdvance(t) ==
    /\ tasks_to_schedule' = tasks_to_schedule \ {t}
    /\ sched_pc' = IF tasks_to_schedule \ {t} = {} THEN "idle" ELSE "loop"

\* One iteration of the for loop, for the clone t, the channel retaining at
\* most max_bus messages.
ScheduleTaskWithin(t, max_bus) ==
    /\ sched_pc = "loop"
    /\ t \in tasks_to_schedule
    /\ LET r == ResolveInputs(TGM, t.graph, t.task_spec.input_mappings)
           present == t.graph \in graphs /\ t.id \in GraphNodes(TGM, t.graph)
       IN  IF ~r.ok
           THEN /\ nodes' = IF present
                            THEN [nodes EXCEPT ![t.id] = MarkInputMappingFailed(@)]
                            ELSE nodes
                /\ SchedAdvance(t)
                /\ UNCHANGED <<bus, cursor>>
           ELSE \E agent_opt \in find_available_agent(t.task_spec.required_agent_role) :
                  /\ IF agent_opt # None /\ present
                     THEN /\ Len(bus) < max_bus
                          /\ nodes' = [nodes EXCEPT ![t.id] = AssignTask(@, r.inputs, agent_opt[1])]
                          /\ bus' = BusSend(bus, <<TaskAssignment(agent_opt[1], t.id)>>)
                          /\ cursor' = cursor
                     ELSE UNCHANGED <<nodes, bus, cursor>>
                  /\ SchedAdvance(t)
    /\ UNCHANGED <<graphs, edges, next_node_id, next_edge_id, table_vars, sprint_vars,
                   delegated_task_mapping, agents, task_results, upstream_vars>>

ScheduleTask(t) == ScheduleTaskWithin(t, MaxBus)

\* The scheduler waits for the status of a worker that never unlocks.
ScheduleBlocked(t) ==
    /\ sched_pc = "loop"
    /\ t \in tasks_to_schedule
    /\ ResolveInputs(TGM, t.graph, t.task_spec.input_mappings).ok
    /\ FindBlocks
    /\ sched_pc' = "blocked"
    /\ UNCHANGED <<graph_vars, delegated_task_mapping, agents, bus, cursor,
                   task_results, upstream_vars, tasks_to_schedule>>

(***************************************************************************)
(* Result processor: the handlers of TaskCompleted, TaskFailed and         *)
(* SubTasksGenerated.  Each takes and returns the manager state.           *)
(***************************************************************************)
\* Completed leaving the error of an earlier attempt in place.
Completed_KeepError(node, outputs) ==
    [node EXCEPT !.status = "Completed", !.outputs = outputs, !.retry_count = 0]

Completed(node, outputs) ==
    [node EXCEPT !.status = "Completed",
                 !.outputs = outputs,
                 !.error_message = None,
                 !.retry_count = 0]

handle_task_completed_success(m, task_id, outputs, graph_id) ==
    IF graph_id \in m.graphs /\ task_id \in GraphNodes(m, graph_id)
    THEN [m EXCEPT !.nodes[task_id] = Completed(@, outputs)]
    ELSE m

max_retries(node) == IF node.retry_policy = None THEN 0 ELSE node.retry_policy[1]

\* Failure without the retry limit.
Failure_NoLimit(node, error, is_fatal) ==
    IF is_fatal
    THEN [node EXCEPT !.error_message = Some(error), !.status = "Failed"]
    ELSE [node EXCEPT !.error_message = Some(error),
                      !.retry_count = @ + 1,
                      !.status = "ReadyToExecute"]

\* Failure clearing the count when the node fails for good.
Failure_ResetCount(node, error, is_fatal) ==
    IF is_fatal \/ node.retry_count >= max_retries(node)
    THEN [node EXCEPT !.error_message = Some(error), !.status = "Failed",
                      !.retry_count = 0]
    ELSE [node EXCEPT !.error_message = Some(error),
                      !.retry_count = @ + 1,
                      !.status = "ReadyToExecute"]

\* Failure comparing with > where the code has >=.
Failure_OffByOne(node, error, is_fatal) ==
    IF is_fatal \/ node.retry_count > max_retries(node)
    THEN [node EXCEPT !.error_message = Some(error), !.status = "Failed"]
    ELSE [node EXCEPT !.error_message = Some(error),
                      !.retry_count = @ + 1,
                      !.status = "ReadyToExecute"]

Failure(node, error, is_fatal) ==
    IF is_fatal \/ node.retry_count >= max_retries(node)
    THEN [node EXCEPT !.error_message = Some(error), !.status = "Failed"]
    ELSE [node EXCEPT !.error_message = Some(error),
                      !.retry_count = @ + 1,
                      !.status = "ReadyToExecute"]

handle_task_failure(m, task_id, error, is_fatal, graph_id) ==
    IF graph_id \in m.graphs /\ task_id \in GraphNodes(m, graph_id)
    THEN [m EXCEPT !.nodes[task_id] = Failure(@, error, is_fatal)]
    ELSE m

SubTaskDefinition(temp_id, spec) == [temp_id |-> temp_id, task_spec |-> spec]
SubTaskEdgeDefinition(from, to) ==
    [from_subtask_temp_id |-> from, to_subtask_temp_id |-> to]

RECURSIVE RemoveNodes(_, _, _)
RemoveNodes(m, graph_id, ids) ==
    IF ids = <<>> THEN m
    ELSE RemoveNodes(remove_task_node(m, graph_id, Head(ids)), graph_id, Tail(ids))

RECURSIVE RemoveEdges(_, _, _)
RemoveEdges(m, graph_id, ids) ==
    IF ids = <<>> THEN m
    ELSE RemoveEdges(remove_task_edge(m, graph_id, Head(ids)), graph_id, Tail(ids))

RECURSIVE AddSubTaskNodes(_, _, _, _, _)
\* Lines 238-268, from sub-task i on; the save of sub-task fail_node fails.
AddSubTaskNodes(acc, graph_id, sub_tasks, i, fail_node) ==
    IF i > Len(sub_tasks) THEN acc
    ELSE LET r == add_task_node_to_graph(acc.m, graph_id, sub_tasks[i].task_spec,
                                         i # fail_node)
         IN  IF r.ok
             THEN AddSubTaskNodes(
                      [acc EXCEPT !.m = r.m,
                                  !.temp_id_to_node_id = Extend(@, sub_tasks[i].temp_id, r.id),
                                  !.added_nodes_ids = Append(@, r.id)],
                      graph_id, sub_tasks, i + 1, fail_node)
             ELSE [acc EXCEPT !.m = RemoveNodes(acc.m, graph_id, acc.added_nodes_ids),
                              !.decomposition_failed = TRUE]

RECURSIVE AddSubTaskEdges(_, _, _, _, _)
\* Lines 270-303, from edge j on; the save of edge fail_edge fails.
AddSubTaskEdges(acc, graph_id, sub_task_edges, j, fail_edge) ==
    IF j > Len(sub_task_edges) THEN acc
    ELSE LET e == sub_task_edges[j]
             map == acc.temp_id_to_node_id
         IN  IF \/ e.from_subtask_temp_id \notin DOMAIN map
                \/ e.to_subtask_temp_id \notin DOMAIN map
             THEN [acc EXCEPT !.decomposition_failed = TRUE]
             ELSE LET r == add_task_edge_to_graph(acc.m, graph_id,
                                                  map[e.from_subtask_temp_id],
                                                  map[e.to_subtask_temp_id],
                                                  j # fail_edge)
                  IN  IF r.ok
                      THEN AddSubTaskEdges(
                               [acc EXCEPT !.m = r.m, !.added_edges_ids = Append(@, r.id)],
                               graph_id, sub_task_edges, j + 1, fail_edge)
                      ELSE [acc EXCEPT !.decomposition_failed = TRUE]

\* Lines 305-320.
SubTaskCleanup(acc, graph_id) ==
    IF acc.decomposition_failed /\ acc.added_edges_ids # <<>>
    THEN RemoveNodes(RemoveEdges(acc.m, graph_id, acc.added_edges_ids),
                     graph_id, acc.added_nodes_ids)
    ELSE acc.m

\* Decomposed leaving the error message of an earlier failure in place.
Decomposed_KeepError(node, decomposition_failed) ==
    IF decomposition_failed
    THEN [node EXCEPT !.status = "Failed",
                      !.error_message = Some("Subtask decomposition failed")]
    ELSE [node EXCEPT !.status = "Completed"]

\* Lines 322-341.
Decomposed(node, decomposition_failed) ==
    IF decomposition_failed
    THEN [node EXCEPT !.status = "Failed",
                      !.error_message = Some("Subtask decomposition failed")]
    ELSE [node EXCEPT !.status = "Completed", !.error_message = None]

handle_subtasks_generated(m, original_task_id, sub_tasks, sub_task_edges, graph_id, fail_node, fail_edge) ==
    IF ~(graph_id \in m.graphs /\ original_task_id \in GraphNodes(m, graph_id))
    THEN m
    ELSE LET start == [m |-> m, temp_id_to_node_id |-> <<>>, added_nodes_ids |-> <<>>,
                       added_edges_ids |-> <<>>, decomposition_failed |-> FALSE]
             n == AddSubTaskNodes(start, graph_id, sub_tasks, 1, fail_node)
             e == IF n.decomposition_failed THEN n
                  ELSE AddSubTaskEdges(n, graph_id, sub_task_edges, 1, fail_edge)
             c == SubTaskCleanup(e, graph_id)
         IN  IF original_task_id \in GraphNodes(c, graph_id)
             THEN [c EXCEPT !.nodes[original_task_id] = Decomposed(@, e.decomposition_failed)]
             ELSE c

SetGraph(m) ==
    /\ graphs' = m.graphs
    /\ nodes' = m.nodes
    /\ edges' = m.edges
    /\ next_node_id' = m.next_node_id
    /\ next_edge_id' = m.next_edge_id
    /\ task_rows' = m.task_rows
    /\ edge_rows' = m.edge_rows
    /\ UNCHANGED sprint_vars

SetBus(bc) ==
    /\ bus' = bc.bus
    /\ cursor' = bc.cursor

(***************************************************************************)
(* Router: one iteration of the MessageProcessor loop.                     *)
(***************************************************************************)
\* HandleDelegateSubTask saying nothing when the edge cannot be added.
HandleDelegateSubTask_SilentEdgeFailure(m, msg, save_node, save_edge) ==
    LET graph_opt == find_graph_id_for_task(m, msg.task_id)
        failure == <<TaskFailed(Orchestrator, Some(msg.agent_id), msg.task_id, msg.agent_id)>>
    IN  IF graph_opt = None THEN [m |-> m, published |-> failure]
        ELSE LET n == add_task_node_to_graph(m, graph_opt[1], msg.sub_task_spec, save_node)
             IN  IF ~n.ok THEN [m |-> m, published |-> failure]
                 ELSE LET e == add_task_edge_to_graph(n.m, graph_opt[1], msg.task_id,
                                                      n.id, save_edge)
                      IN  IF e.ok THEN [m |-> e.m, published |-> <<>>]
                          ELSE [m |-> n.m, published |-> <<>>]

\* Lines 139-186.  The failure message is sent by a task spawned for that
\* one send.
HandleDelegateSubTask(m, msg, save_node, save_edge) ==
    LET graph_opt == find_graph_id_for_task(m, msg.task_id)
        failure == <<TaskFailed(Orchestrator, Some(msg.agent_id), msg.task_id, msg.agent_id)>>
    IN  IF graph_opt = None THEN [m |-> m, published |-> failure]
        ELSE LET n == add_task_node_to_graph(m, graph_opt[1], msg.sub_task_spec, save_node)
             IN  IF ~n.ok THEN [m |-> m, published |-> failure]
                 ELSE LET e == add_task_edge_to_graph(n.m, graph_opt[1], msg.task_id,
                                                      n.id, save_edge)
                      IN  IF e.ok THEN [m |-> e.m, published |-> <<>>]
                          ELSE [m |-> n.m, published |-> failure]

RouterForward ==
    /\ HasMessage(Orchestrator)
    /\ NextMessage(Orchestrator).kind \in {"TaskCompleted", "TaskFailed"}
    /\ Len(task_results) < MaxResults
    /\ task_results' = Append(task_results, NextMessage(Orchestrator))
    /\ SetBus(AfterReceive(Orchestrator, <<>>))
    /\ UNCHANGED <<graph_vars, delegated_task_mapping, agents, upstream_vars, sched_vars>>

\* Nothing is written to delegated_task_mapping: the field is private to the
\* graph manager, which offers no insertion (TODO at line 165).
RouterDelegate ==
    /\ HasMessage(Orchestrator)
    /\ NextMessage(Orchestrator).kind = "DelegateSubTask"
    /\ next_node_id <= MaxNodes
    /\ next_edge_id <= MaxEdges
    /\ \E save_node, save_edge \in BOOLEAN :
         LET r == HandleDelegateSubTask(TGM, NextMessage(Orchestrator), save_node, save_edge)
             bc == AfterReceive(Orchestrator, r.published)
         IN  /\ Len(bc.bus) <= MaxBus
             /\ SetGraph(r.m)
             /\ SetBus(bc)
    /\ UNCHANGED <<delegated_task_mapping, agents, task_results, upstream_vars, sched_vars>>

\* HandleRequestInformation naming no receiver.
HandleRequestInformation_Undirected(msg, agent_opt) ==
    IF agent_opt = None THEN <<>>
    ELSE <<RequestInformation(Orchestrator, None, msg.task_id, msg.agent_id)>>

\* Lines 73-96: the request is republished for an available Researcher.
HandleRequestInformation(msg, agent_opt) ==
    IF agent_opt = None THEN <<>>
    ELSE <<RequestInformation(Orchestrator, agent_opt, msg.task_id, msg.agent_id)>>

\* Lines 97-111: the response is republished for the requesting agent.
HandleReturnInformation(msg) ==
    <<ReturnInformation(Orchestrator, Some(msg.agent_id), msg.task_id, msg.agent_id)>>

RouterRequestInformation ==
    /\ HasMessage(Orchestrator)
    /\ NextMessage(Orchestrator).kind = "RequestInformation"
    /\ \E agent_opt \in find_available_agent(Some("Researcher")) :
         LET bc == AfterReceive(Orchestrator,
                                HandleRequestInformation(NextMessage(Orchestrator), agent_opt))
         IN  Len(bc.bus) <= MaxBus /\ SetBus(bc)
    /\ UNCHANGED <<graph_vars, delegated_task_mapping, agents, task_results,
                   upstream_vars, sched_vars>>

RouterReturnInformation ==
    /\ HasMessage(Orchestrator)
    /\ NextMessage(Orchestrator).kind = "ReturnInformation"
    /\ LET bc == AfterReceive(Orchestrator, HandleReturnInformation(NextMessage(Orchestrator)))
       IN  Len(bc.bus) <= MaxBus /\ SetBus(bc)
    /\ UNCHANGED <<graph_vars, delegated_task_mapping, agents, task_results,
                   upstream_vars, sched_vars>>

RouterIgnore ==
    /\ HasMessage(Orchestrator)
    /\ NextMessage(Orchestrator).kind \notin
          {"TaskCompleted", "TaskFailed", "DelegateSubTask",
           "RequestInformation", "ReturnInformation"}
    /\ SetBus(AfterReceive(Orchestrator, <<>>))
    /\ UNCHANGED <<graph_vars, delegated_task_mapping, agents, task_results,
                   upstream_vars, sched_vars>>

(***************************************************************************)
(* Result processor: one iteration of start_processing.                    *)
(***************************************************************************)
\* Lines 138-166 of handle_task_completed_success: what is published once the
\* completed task was taken out of the delegation map.
CompletionNotification(task_id) ==
    IF task_id \notin DOMAIN delegated_task_mapping THEN <<>>
    ELSE LET delegating_agent_id == delegated_task_mapping[task_id]
             agent == get_agent(delegating_agent_id)
         IN  IF agent # None /\ agents[agent[1]].status = "WaitingForDelegatedTask"
             THEN <<DelegatedTaskCompletedNotification(delegating_agent_id, task_id)>>
             ELSE <<>>

\* max_nodes and max_edges bound the ids the SubTasksGenerated handler uses.
ProcessResultWithin(max_nodes, max_edges) ==
    /\ task_results # <<>>
    /\ task_results' = Tail(task_results)
    /\ LET msg == Head(task_results)
           graph_opt == find_graph_id_for_task(TGM, msg.task_id)
       IN  IF graph_opt = None
           THEN UNCHANGED <<graph_vars, delegated_task_mapping, bus>>
           ELSE CASE msg.kind = "TaskCompleted" ->
                       /\ SetGraph(handle_task_completed_success(
                              TGM, msg.task_id, <<msg.deliverable>>, graph_opt[1]))
                       /\ delegated_task_mapping' =
                              Without(delegated_task_mapping, msg.task_id)
                       /\ bus' = BusSend(bus, CompletionNotification(msg.task_id))
                  [] msg.kind = "TaskFailed" ->
                       /\ SetGraph(handle_task_failure(
                              TGM, msg.task_id, "error", FALSE, graph_opt[1]))
                       /\ UNCHANGED <<delegated_task_mapping, bus>>
                  [] msg.kind = "SubTasksGenerated" ->
                       /\ next_node_id + Len(msg.sub_tasks) <= max_nodes + 1
                       /\ next_edge_id + Len(msg.sub_task_edges) <= max_edges + 1
                       /\ \E fail_node \in 0..Len(msg.sub_tasks),
                             fail_edge \in 0..Len(msg.sub_task_edges) :
                            SetGraph(handle_subtasks_generated(
                                TGM, msg.task_id, msg.sub_tasks, msg.sub_task_edges,
                                graph_opt[1], fail_node, fail_edge))
                       /\ UNCHANGED <<delegated_task_mapping, bus>>
                  [] OTHER -> UNCHANGED <<graph_vars, delegated_task_mapping, bus>>
    /\ UNCHANGED <<agents, cursor, upstream_vars, sched_vars>>

ProcessResult == ProcessResultWithin(MaxNodes, MaxEdges)

(***************************************************************************)
(* Worker run loops.                                                       *)
(***************************************************************************)
Addressed(a, msg) == msg.receiver_id = None \/ msg.receiver_id = Some(a)

\* SimpleWorkerAgent::start: the components guard taken for the acknowledgement
\* is still held when process_task asks for the same mutex.
SimpleWorkerReceive(a) ==
    /\ agents[a].role = "SimpleWorker"
    /\ agents[a].pc = "recv"
    /\ HasMessage(a)
    /\ SetBus(AfterReceive(a, <<>>))
    /\ IF Addressed(a, NextMessage(a)) /\ NextMessage(a).kind = "TaskAssignment"
       THEN /\ UpstreamSend(a, <<"TaskAcknowledgement">>)
            /\ agents' = [agents EXCEPT ![a].pc = "deadlocked"]
       ELSE UNCHANGED <<agents, request_queue, send_errors>>
    /\ request_receiver_alive' = request_receiver_alive
    /\ UNCHANGED <<graph_vars, delegated_task_mapping, task_results, sched_vars>>

\* ResearcherAgent::start: every TaskAssignment is taken, whoever it is for,
\* and so is every RequestInformation, which a task spawned for it answers
\* upstream whatever the capability call returns.
ResearcherReceive(a) ==
    /\ agents[a].role = "Researcher"
    /\ agents[a].pc = "recv"
    /\ HasMessage(a)
    /\ SetBus(AfterReceive(a, <<>>))
    /\ agents' = IF NextMessage(a).kind = "TaskAssignment"
                 THEN [agents EXCEPT ![a].status = "Busy", ![a].pc = "processing"]
                 ELSE agents
    /\ IF NextMessage(a).kind = "RequestInformation"
       THEN UpstreamSend(a, <<"ReturnInformation">>)
       ELSE UNCHANGED <<request_queue, send_errors>>
    /\ request_receiver_alive' = request_receiver_alive
    /\ UNCHANGED <<graph_vars, delegated_task_mapping, task_results, sched_vars>>

McpOutcomes == {"report", "parse_error", "mcp_error"}

\* ResearcherAgent::process_task after the capability call, and the error
\* branch of start when it returns Err.
ResearcherFinish(a) ==
    /\ agents[a].role = "Researcher"
    /\ agents[a].pc = "processing"
    /\ \E outcome \in McpOutcomes :
         LET first == IF outcome = "report" THEN "TaskCompleted" ELSE "TaskFailed"
             returns_ok == request_receiver_alive /\ outcome = "report"
         IN  /\ UpstreamSend(a, IF returns_ok THEN <<first>> ELSE <<first, "TaskFailed">>)
             /\ agents' = [agents EXCEPT ![a].pc = "recv",
                                         ![a].status = IF returns_ok THEN "Idle" ELSE @]
    /\ request_receiver_alive' = request_receiver_alive
    /\ UNCHANGED <<graph_vars, delegated_task_mapping, bus, cursor, task_results,
                   sched_vars>>

CoderOutcomes == {"unhandled_type", "no_language", "generated", "parse_error", "mcp_error"}

\* What CoderAgent::process_task sends upstream, in order, for each outcome.
CoderSends(outcome) ==
    CASE outcome = "unhandled_type" -> <<>>
      [] outcome = "generated" ->
            IF request_receiver_alive THEN <<"DelegateSubTask">>
            ELSE <<"DelegateSubTask", "TaskFailed">>
      [] OTHER -> <<"TaskFailed">>

\* CoderAgent::start: one message.  A TaskAssignment is processed whoever it is
\* for, and process_task returns before the next message is taken; the status
\* is written only on a DelegatedTaskCompletedNotification.
CoderReceive(a) ==
    /\ agents[a].role = "Coder"
    /\ agents[a].pc = "recv"
    /\ HasMessage(a)
    /\ SetBus(AfterReceive(a, <<>>))
    /\ CASE NextMessage(a).kind = "TaskAssignment" ->
              /\ \E outcome \in CoderOutcomes : UpstreamSend(a, CoderSends(outcome))
              /\ agents' = agents
         [] NextMessage(a).kind = "DelegatedTaskCompletedNotification" ->
              /\ agents' = [agents EXCEPT ![a].status = "Idle"]
              /\ UNCHANGED <<request_queue, send_errors>>
         [] OTHER -> UNCHANGED <<agents, request_queue, send_errors>>
    /\ request_receiver_alive' = request_receiver_alive
    /\ UNCHANGED <<graph_vars, delegated_task_mapping, task_results, sched_vars>>

\* ValidatorAgent::start: every message is taken and dropped.
ValidatorReceive(a) ==
    /\ agents[a].role = "Validator"
    /\ agents[a].pc = "recv"
    /\ HasMessage(a)
    /\ SetBus(AfterReceive(a, <<>>))
    /\ UNCHANGED <<graph_vars, delegated_task_mapping, agents, task_results,
                   upstream_vars, sched_vars>>

\* WriterAgent::process_task for the task `task`, a response being held or
\* not: the request for information, or the draft and its report.
WriterProcessTask(a, task, received) ==
    IF task \in DOMAIN nodes /\ nodes[task].task_spec.needs_research /\ ~received
    THEN /\ agents' = [agents EXCEPT ![a].status = "WaitingForInformation",
                                     ![a].current_task = Some(task)]
         /\ UpstreamSend(a, IF request_receiver_alive THEN <<"RequestInformation">>
                            ELSE <<"RequestInformation", "TaskFailed">>)
    ELSE /\ agents' = [agents EXCEPT ![a].status = "Idle",
                                     ![a].current_task = None,
                                     ![a].received_information = FALSE]
         /\ \E outcome \in McpOutcomes :
              UpstreamSend(a, <<IF outcome = "report" THEN "TaskCompleted" ELSE "TaskFailed">>)

\* The test forgetting which task the response is for.
AcceptsReturnInformation_AnyTask(a, msg) ==
    agents[a].status = "WaitingForInformation"

\* The test a Writer makes on a ReturnInformation before using it.
AcceptsReturnInformation(a, msg) ==
    /\ agents[a].status = "WaitingForInformation"
    /\ agents[a].current_task = Some(msg.task_id)

\* WriterAgent::start: one message.  A TaskAssignment and a ReturnInformation
\* are handled whoever they are for.
WriterReceive(a) ==
    /\ agents[a].role = "Writer"
    /\ agents[a].pc = "recv"
    /\ HasMessage(a)
    /\ SetBus(AfterReceive(a, <<>>))
    /\ LET msg == NextMessage(a)
       IN  CASE msg.kind = "TaskAssignment" ->
                   WriterProcessTask(a, msg.task_id, agents[a].received_information)
             [] msg.kind = "ReturnInformation" /\ AcceptsReturnInformation(a, msg) ->
                   WriterProcessTask(a, msg.task_id, TRUE)
             [] OTHER -> UNCHANGED <<agents, request_queue, send_errors>>
    /\ request_receiver_alive' = request_receiver_alive
    /\ UNCHANGED <<graph_vars, delegated_task_mapping, task_results, sched_vars>>

\* PlannerAgent::start: every message is printed and dropped.
PlannerReceive(a) ==
    /\ agents[a].role = "Planner"
    /\ agents[a].pc = "recv"
    /\ HasMessage(a)
    /\ SetBus(AfterReceive(a, <<>>))
    /\ UNCHANGED <<graph_vars, delegated_task_mapping, agents, task_results,
                   upstream_vars, sched_vars>>

(***************************************************************************)
(* Callers.                                                                *)
(***************************************************************************)
\* tauri_bindings::execute_agent_task: spawn one agent of the chosen role,
\* create a graph, add its root node.  The new Uuids are the next unused ones.
ExecuteAgentTask(role, save_ok) ==
    /\ save_ok => next_node_id <= MaxNodes
    /\ LET a == Cardinality(DOMAIN agents) + 1
           graph_id == a
           spec == WithPriority(TaskSpecification(role, Some(role), <<>>), 1)
           created == [TGM EXCEPT !.graphs = @ \cup {graph_id}]
       IN  /\ agents' = Extend(agents, a, NewAgent(role))
           /\ cursor' = Extend(cursor, a, Len(bus))
           /\ SetGraph(add_task_node_to_graph(created, graph_id, spec, save_ok).m)
    /\ UNCHANGED <<delegated_task_mapping, bus, task_results, upstream_vars, sched_vars>>

DelegatedSpecs == {TaskSpecification("SimpleWorker", None, <<>>)}

\* The validation sub-task a Coder delegates for its task.
ValidationSubTaskSpec(task_id) ==
    TaskSpecification("Validator", Some("Validator"),
                      <<InputMapping(task_id, "generated_code")>>)

SubSpec == TaskSpecification("SimpleWorker", None, <<>>)

\* Decompositions a planner reports: (sub-tasks, edges between their temp ids).
Decompositions ==
    {<< <<SubTaskDefinition("sA", SubSpec)>>, <<>> >>,
     << <<SubTaskDefinition("sA", SubSpec)>>, <<SubTaskEdgeDefinition("sA", "sB")>> >>,
     << <<SubTaskDefinition("sA", SubSpec), SubTaskDefinition("sB", SubSpec)>>,
        <<SubTaskEdgeDefinition("sA", "sB")>> >>,
     << <<SubTaskDefinition("sA", SubSpec), SubTaskDefinition("sB", SubSpec)>>,
        <<SubTaskEdgeDefinition("sA", "sB"), SubTaskEdgeDefinition("sB", "sA")>> >>}

\* The tasks worker a was handed: the only ones its messages can name.
TasksOf(a) == {t \in DOMAIN nodes : nodes[t].assigned_agent_id = Some(a)}

\* The worker messages that a holder of the broadcast sender
\* (CommunicationBus::publish, get_sender) puts on the bus: the workers' own
\* upstream sends never get there.
PublishedMessages ==
    {TaskCompleted(a, t, d) : a \in DOMAIN agents, t \in DOMAIN nodes, d \in Contents}
    \cup {TaskFailed(a, None, t, a) : a \in DOMAIN agents, t \in DOMAIN nodes}
    \cup {DelegateSubTask(a, t, spec) :
            a \in DOMAIN agents, t \in DOMAIN nodes, spec \in DelegatedSpecs}
    \cup {DelegateSubTask(a, t, ValidationSubTaskSpec(t)) :
            a \in {c \in DOMAIN agents : agents[c].role = "Coder"}, t \in DOMAIN nodes}
    \cup {SubTasksGenerated(a, t, d[1], d[2]) :
            a \in DOMAIN agents, t \in DOMAIN nodes, d \in Decompositions}

\* CommunicationBus::publish.
Publish(msg) ==
    /\ msg.task_id \in TasksOf(msg.sender_id)
    /\ Len(bus) < MaxBus
    /\ bus' = BusSend(bus, <<msg>>)
    /\ UNCHANGED <<graph_vars, delegated_task_mapping, agents, cursor, task_results,
                   upstream_vars, sched_vars>>

Next ==
    \/ SchedCollect
    \/ \E t \in tasks_to_schedule : ScheduleTask(t)
    \/ \E t \in tasks_to_schedule : ScheduleBlocked(t)
    \/ RouterForward
    \/ RouterDelegate
    \/ RouterIgnore
    \/ ProcessResult
    \/ \E a \in DOMAIN agents : SimpleWorkerReceive(a)
    \/ \E a \in DOMAIN agents : ResearcherReceive(a)
    \/ \E a \in DOMAIN agents : ResearcherFinish(a)
    \/ \E role \in SpawnRoles, save_ok \in BOOLEAN :
          Cardinality(DOMAIN agents) < MaxWorkers /\ ExecuteAgentTask(role, save_ok)
    \/ \E msg \in PublishedMessages : Publish(msg)

Spec == Init /\ [][Next]_vars

(***************************************************************************)
(* The tokio runtime keeps running every task that can take a step: the    *)
(* scheduler loop of CoreOrchestrator::run, the router, the result         *)
(* processor and each worker's run loop.  Callers and the relay are free.  *)
(***************************************************************************)
Scheduler ==
    \/ SchedCollect
    \/ \E t \in tasks_to_schedule : ScheduleTask(t)
    \/ \E t \in tasks_to_schedule : ScheduleBlocked(t)

Router ==
    \/ RouterForward
    \/ RouterDelegate
    \/ RouterRequestInformation
    \/ RouterReturnInformation
    \/ RouterIgnore

Worker(a) == SimpleWorkerReceive(a) \/ ResearcherReceive(a) \/ ResearcherFinish(a)

FairSpec ==
    /\ Spec
    /\ WF_vars(Scheduler)
    /\ WF_vars(Router)
    /\ WF_vars(ProcessResult)
    /\ \A a \in WorkerIds : WF_vars(a \in DOMAIN agents /\ Worker(a))

(***************************************************************************)
(* The same system with the graph operations the orchestrator and the      *)
(* graph manager expose called directly, and with SubTasksGenerated        *)
(* results handed to the result processor.                                 *)
(***************************************************************************)
ApiSpecs == {TaskSpecification("SimpleWorker", None, <<>>)}

AddTaskNode(graph_id, spec, save_ok) ==
    /\ next_node_id <= MaxNodes
    /\ SetGraph(add_task_node_to_graph(TGM, graph_id, spec, save_ok).m)
    /\ UNCHANGED <<delegated_task_mapping, agents, bus, cursor, task_results,
                   upstream_vars, sched_vars>>

AddTaskEdge(graph_id, from, to, save_ok) ==
    /\ next_edge_id <= MaxEdges
    /\ SetGraph(add_task_edge_to_graph(TGM, graph_id, from, to, save_ok).m)
    /\ UNCHANGED <<delegated_task_mapping, agents, bus, cursor, task_results,
                   upstream_vars, sched_vars>>

RemoveTaskNode(graph_id, node_id) ==
    /\ SetGraph(remove_task_node(TGM, graph_id, node_id))
    /\ UNCHANGED <<delegated_task_mapping, agents, bus, cursor, task_results,
                   upstream_vars, sched_vars>>

RemoveTaskEdge(graph_id, edge_id) ==
    /\ SetGraph(remove_task_edge(TGM, graph_id, edge_id))
    /\ UNCHANGED <<delegated_task_mapping, agents, bus, cursor, task_results,
                   upstream_vars, sched_vars>>

\* A (task_id, SubTasksGenerated) pair arrives on the result channel.
SubTasksGeneratedResult(a, t, d) ==
    /\ t \in TasksOf(a)
    /\ Len(task_results) < MaxResults
    /\ task_results' = Append(task_results, SubTasksGenerated(a, t, d[1], d[2]))
    /\ UNCHANGED <<graph_vars, delegated_task_mapping, agents, bus, cursor,
                   upstream_vars, sched_vars>>

GraphIds == {DefaultGraph} \cup WorkerIds

NextApi ==
    \/ Next
    \/ \E g \in graphs, spec \in ApiSpecs, save_ok \in BOOLEAN : AddTaskNode(g, spec, save_ok)
    \/ \E g \in GraphIds, from \in NodeIds, to \in NodeIds, save_ok \in BOOLEAN :
          AddTaskEdge(g, from, to, save_ok)
    \/ \E g \in GraphIds, n \in NodeIds : RemoveTaskNode(g, n)
    \/ \E g \in GraphIds, e \in EdgeIds : RemoveTaskEdge(g, e)
    \/ \E a \in DOMAIN agents, t \in DOMAIN nodes, d \in Decompositions :
          SubTasksGeneratedResult(a, t, d)

SpecApi == Init /\ [][NextApi]_vars

(***************************************************************************)
(* A Coder and Validator team: the tasks table holds code-generation       *)
(* tasks, and execute_agent_task spawns Coders and Validators.             *)
(***************************************************************************)
TeamRoles == {"Coder", "Validator"}
TeamIds == 1..MaxTeam

TeamRows(n) ==
    {[NewTaskNode(DefaultGraph, TaskSpecification("Coder", Some("Coder"), <<>>))
        EXCEPT !.status = st] : st \in LoadedStatuses}

InitTeam == InitFrom([n \in 1..MaxLoaded |-> TeamRows(n)], MaxLoaded)

TeamWorker(a) == CoderReceive(a) \/ ValidatorReceive(a)

NextTeam ==
    \/ SchedCollect
    \/ \E t \in tasks_to_schedule : ScheduleTask(t)
    \/ RouterForward
    \/ RouterDelegate
    \/ RouterIgnore
    \/ ProcessResult
    \/ \E a \in DOMAIN agents : CoderReceive(a)
    \/ \E a \in DOMAIN agents : ValidatorReceive(a)
    \/ \E role \in TeamRoles, save_ok \in BOOLEAN :
          Cardinality(DOMAIN agents) < MaxTeam /\ ExecuteAgentTask(role, save_ok)
    \/ \E msg \in PublishedMessages : Publish(msg)

SpecTeam == InitTeam /\ [][NextTeam]_vars

FairTeam ==
    /\ SpecTeam
    /\ WF_vars(SchedCollect \/ \E t \in tasks_to_schedule : ScheduleTask(t))
    /\ WF_vars(Router)
    /\ WF_vars(ProcessResult)
    /\ \A a \in TeamIds : WF_vars(a \in DOMAIN agents /\ TeamWorker(a))

(***************************************************************************)
(* Planning: the tasks table holds planning tasks, execute_agent_task      *)
(* spawns Planners, and the decompositions of the tasks a Planner was      *)
(* handed arrive on the result channel.                                    *)
(***************************************************************************)
PlannerRows(n) ==
    {[NewTaskNode(DefaultGraph, TaskSpecification("Planner", Some("Planner"), <<>>))
        EXCEPT !.status = st] : st \in LoadedStatuses}

InitDecomp == InitFrom([n \in 1..MaxLoaded |-> PlannerRows(n)], MaxLoaded)

ProcessDecomp == ProcessResultWithin(MaxSubNodes, MaxSubEdges)

NextDecomp ==
    \/ SchedCollect
    \/ \E t \in tasks_to_schedule : ScheduleTask(t)
    \/ RouterIgnore
    \/ ProcessDecomp
    \/ \E a \in DOMAIN agents : PlannerReceive(a)
    \/ \E save_ok \in BOOLEAN :
          Cardinality(DOMAIN agents) < MaxWorkers /\ ExecuteAgentTask("Planner", save_ok)
    \/ \E a \in DOMAIN agents, t \in DOMAIN nodes, d \in Decompositions :
          SubTasksGeneratedResult(a, t, d)

SpecDecomp == InitDecomp /\ [][NextDecomp]_vars

(***************************************************************************)
(* A backlog: the tasks table holds root tasks of earlier                  *)
(* execute_agent_task calls and sub-tasks of earlier decompositions, row n *)
(* being the n-th created.                                                 *)
(***************************************************************************)
RootSpec(role) == WithPriority(TaskSpecification(role, Some(role), <<>>), 1)

QueuedRows(n) ==
    {[NewTaskNode(DefaultGraph, spec) EXCEPT !.status = st] :
        spec \in {RootSpec(role) : role \in SpawnRoles} \cup {SubSpec},
        st \in LoadedStatuses}

InitSched == InitFrom([n \in 1..MaxQueued |-> QueuedRows(n)], MaxQueued)

NextSched ==
    \/ SchedCollect
    \/ \E t \in tasks_to_schedule : ScheduleTask(t)
    \/ \E t \in tasks_to_schedule : ScheduleBlocked(t)
    \/ RouterIgnore
    \/ \E a \in DOMAIN agents : SimpleWorkerReceive(a)
    \/ \E a \in DOMAIN agents : ResearcherReceive(a)
    \/ \E a \in DOMAIN agents : ResearcherFinish(a)
    \/ \E role \in SpawnRoles, save_ok \in BOOLEAN :
          Cardinality(DOMAIN agents) < MaxWorkers /\ ExecuteAgentTask(role, save_ok)

SpecSched == InitSched /\ [][NextSched]_vars

(***************************************************************************)
(* Tasks with inputs: the tasks table holds planning tasks, each of which   *)
(* may take the deliverable "d1" of the task created before it; the row of *)
(* the first task's producer is gone.                                      *)
(***************************************************************************)
MappedRows(n) ==
    {[NewTaskNode(DefaultGraph, TaskSpecification("Planner", Some("Planner"), im))
        EXCEPT !.status = st, !.retry_policy = rp] :
        im \in {<<>>, <<InputMapping(n - 1, "d1")>>},
        st \in LoadedStatuses, rp \in LoadedPolicies}

InitInputs == InitFrom([n \in 1..MaxQueued |-> MappedRows(n)], MaxQueued)

NextInputs ==
    \/ SchedCollect
    \/ \E t \in tasks_to_schedule : ScheduleTask(t)
    \/ RouterForward
    \/ RouterDelegate
    \/ RouterIgnore
    \/ ProcessResult
    \/ \E a \in DOMAIN agents : PlannerReceive(a)
    \/ \E save_ok \in BOOLEAN :
          Cardinality(DOMAIN agents) < MaxWorkers /\ ExecuteAgentTask("Planner", save_ok)
    \/ \E msg \in PublishedMessages : Publish(msg)

SpecInputs == InitInputs /\ [][NextInputs]_vars

(***************************************************************************)
(* Writers and Researchers: the tasks table holds writing tasks, some of   *)
(* which need research; what the workers hand to the upstream channel for  *)
(* each other can also be put on the bus by a holder of the broadcast      *)
(* sender.                                                                 *)
(***************************************************************************)
InfoRoles == {"Writer", "Researcher"}

WriterSpec == TaskSpecification("Writer", Some("Writer"), <<>>)

WriterRows(n) ==
    {[NewTaskNode(DefaultGraph, spec) EXCEPT !.status = st] :
        spec \in {WriterSpec, NeedsResearch(WriterSpec)}, st \in LoadedStatuses}

InitInfo == InitFrom([n \in 1..MaxQueued |-> WriterRows(n)], MaxQueued)

AgentsOf(role) == {a \in DOMAIN agents : agents[a].role = role}

InfoMessages ==
    {RequestInformation(w, None, t, w) : w \in AgentsOf("Writer"), t \in DOMAIN nodes}
    \cup {ReturnInformation(r, Some(w), t, w) :
            r \in AgentsOf("Researcher"), w \in AgentsOf("Writer"), t \in DOMAIN nodes}

PublishInfo(msg) ==
    /\ msg.task_id \in TasksOf(msg.agent_id)
    /\ Len(bus) < MaxBus
    /\ bus' = BusSend(bus, <<msg>>)
    /\ UNCHANGED <<graph_vars, delegated_task_mapping, agents, cursor, task_results,
                   upstream_vars, sched_vars>>

NextInfo ==
    \/ SchedCollect
    \/ \E t \in tasks_to_schedule : ScheduleTask(t)
    \/ RouterRequestInformation
    \/ RouterReturnInformation
    \/ RouterIgnore
    \/ \E a \in DOMAIN agents : WriterReceive(a)
    \/ \E a \in DOMAIN agents : ResearcherReceive(a)
    \/ \E a \in DOMAIN agents : ResearcherFinish(a)
    \/ \E role \in InfoRoles, save_ok \in BOOLEAN :
          Cardinality(DOMAIN agents) < MaxTeam /\ ExecuteAgentTask(role, save_ok)
    \/ \E msg \in InfoMessages : PublishInfo(msg)

SpecInfo == InitInfo /\ [][NextInfo]_vars

\* Agent::start of agent a, whatever its role, taking one message.
WorkerReceive(a) ==
    \/ SimpleWorkerReceive(a)
    \/ ResearcherReceive(a)
    \/ WriterReceive(a)
    \/ CoderReceive(a)
    \/ ValidatorReceive(a)
    \/ PlannerReceive(a)

(***************************************************************************)
(* The broadcast channel at its capacity, and its end.  A send into a full *)
(* channel overwrites the oldest message: every receiver's position moves  *)
(* back by one, and a receiver whose position is negative has lagged by    *)
(* that many messages.  When every broadcast::Sender is dropped the        *)
(* receivers drain what is retained and then observe Closed: the sequence  *)
(* then ends with the Closed mark, which no receiver steps over.           *)
(***************************************************************************)
BusCapacity == 2   \* BUS_CHANNEL_CAPACITY, scaled down
MaxLag == 2        \* messages a receiver may lag by

AllRoles == {"Planner", "Researcher", "Writer", "Coder", "Validator", "SimpleWorker"}

Closed == Message("Closed", Orchestrator, None, 0, "", 0, NoSpec, <<>>, <<>>)

IsClosed == bus # <<>> /\ bus[Len(bus)] = Closed

\* What recv() returns to subscriber s: Err(Lagged), Ok(message), Err(Closed).
Lagged(s) == s \in DOMAIN cursor /\ cursor[s] < 0
Delivered(s) ==
    s \in DOMAIN cursor /\ cursor[s] >= 0 /\ HasMessage(s) /\ NextMessage(s) # Closed
ObservesClosed(s) ==
    s \in DOMAIN cursor /\ cursor[s] >= 0 /\ HasMessage(s) /\ NextMessage(s) = Closed

\* broadcast::Sender::send
BroadcastSend(b, c, msg) ==
    IF Len(b) < BusCapacity
    THEN [bus |-> Append(b, msg), cursor |-> c]
    ELSE [bus |-> Append(Tail(b), msg), cursor |-> [s \in DOMAIN c |-> c[s] - 1]]

BusMessages == {TaskAssignment(a, t) : a \in DOMAIN agents, t \in DOMAIN nodes}

\* CommunicationBus::publish by a holder of the bus.
BroadcastPublish(msg) ==
    /\ ~IsClosed
    /\ \A s \in DOMAIN cursor : cursor[s] > -MaxLag
    /\ SetBus(BroadcastSend(bus, cursor, msg))
    /\ UNCHANGED <<graph_vars, delegated_task_mapping, agents, task_results,
                   upstream_vars, sched_vars>>

\* Every broadcast::Sender is dropped.
DropSenders ==
    /\ ~IsClosed
    /\ bus' = Append(bus, Closed)
    /\ UNCHANGED <<graph_vars, delegated_task_mapping, agents, cursor, task_results,
                   upstream_vars, sched_vars>>

\* Agent::start returns: the loop is left and the receiver is dropped.
StopWorker(a) ==
    /\ agents' = [agents EXCEPT ![a].pc = "stopped"]
    /\ cursor' = Without(cursor, a)

\* recv() returns Err(Lagged(n)).  CoderAgent::start loops `while let Ok(..)`
\* and so leaves its loop; the other roles log and receive again, from the
\* oldest message retained.
RecvLagged(a) ==
    /\ a \in DOMAIN agents
    /\ agents[a].pc = "recv"
    /\ Lagged(a)
    /\ IF agents[a].role = "Coder"
       THEN StopWorker(a)
       ELSE agents' = agents /\ cursor' = [cursor EXCEPT ![a] = 0]
    /\ UNCHANGED <<graph_vars, delegated_task_mapping, bus, task_results,
                   upstream_vars, sched_vars>>

\* recv() returns Err(Closed).  Every role but the Validator leaves its loop;
\* ValidatorAgent::start discards what recv() returned and selects again, which
\* changes nothing.
RecvClosed(a) ==
    /\ a \in DOMAIN agents
    /\ agents[a].pc = "recv"
    /\ ObservesClosed(a)
    /\ agents[a].role # "Validator"
    /\ StopWorker(a)
    /\ UNCHANGED <<graph_vars, delegated_task_mapping, bus, task_results,
                   upstream_vars, sched_vars>>

\* The Validator's other select branch: the operator's Ctrl-C.
ValidatorCtrlC(a) ==
    /\ a \in DOMAIN agents
    /\ agents[a].role = "Validator"
    /\ agents[a].pc = "recv"
    /\ StopWorker(a)
    /\ UNCHANGED <<graph_vars, delegated_task_mapping, bus, task_results,
                   upstream_vars, sched_vars>>

\* The router's loop on Err(Lagged) and on Err(Closed).
RouterLagged ==
    /\ Lagged(Orchestrator)
    /\ cursor' = [cursor EXCEPT ![Orchestrator] = 0]
    /\ UNCHANGED <<graph_vars, delegated_task_mapping, agents, bus, task_results,
                   upstream_vars, sched_vars>>

RouterClosed ==
    /\ ObservesClosed(Orchestrator)
    /\ cursor' = Without(cursor, Orchestrator)
    /\ UNCHANGED <<graph_vars, delegated_task_mapping, agents, bus, task_results,
                   upstream_vars, sched_vars>>

BusWorker(a) ==
    \/ Delivered(a) /\ WorkerReceive(a)
    \/ ResearcherFinish(a)
    \/ RecvLagged(a)
    \/ RecvClosed(a)

BusRouter ==
    \/ Delivered(Orchestrator) /\ RouterIgnore
    \/ RouterLagged
    \/ RouterClosed

NextBus ==
    \/ \E role \in AllRoles, save_ok \in BOOLEAN :
          /\ ~IsClosed
          /\ Cardinality(DOMAIN agents) < MaxWorkers
          /\ ExecuteAgentTask(role, save_ok)
    \/ \E msg \in BusMessages : BroadcastPublish(msg)
    \/ DropSenders
    \/ \E a \in DOMAIN agents : Delivered(a) /\ WorkerReceive(a)
    \/ \E a \in DOMAIN agents : ResearcherFinish(a)
    \/ \E a \in DOMAIN agents : RecvLagged(a)
    \/ \E a \in DOMAIN agents : RecvClosed(a)
    \/ \E a \in DOMAIN agents : ValidatorCtrlC(a)
    \/ Delivered(Orchestrator) /\ RouterIgnore
    \/ RouterLagged
    \/ RouterClosed

SpecBus == Init /\ [][NextBus]_vars

FairBus ==
    /\ SpecBus
    /\ WF_vars(BusRouter)
    /\ \A a \in WorkerIds : WF_vars(a \in DOMAIN agents /\ BusWorker(a))

(***************************************************************************)
(* Sprints.  start_sprint and complete_sprint read the sprint under the    *)
(* read lock, release it, check the status of their copy, write the        *)
(* updated copy to the sprints table and then insert it in the map under   *)
(* the write lock: three steps, between which other calls on the shared    *)
(* TaskGraphManager run.                                                   *)
(***************************************************************************)
MaxSprints == 1    \* sprint ids ever handed out
MaxCalls == 2      \* start_sprint / complete_sprint calls under way at once

SprintIds == 1..MaxSprints
SprintStatuses == {"Planned", "Active", "Completed", "Aborted"}
SprintOps == {"start_sprint", "complete_sprint"}

Sprint(status, start_date, end_date) ==
    [status |-> status, start_date |-> start_date, end_date |-> end_date]

Now == Some("now")

\* persistence::load_all_sprints: rows of any status.
LoadedSprints ==
    {<<>>} \cup {[id \in SprintIds |-> Sprint(st, IF st = "Planned" THEN None ELSE Now,
                                             IF st = "Completed" THEN Now ELSE None)] :
                   st \in SprintStatuses}

InitSprint ==
    \E loaded \in LoadedSprints :
        InitLoaded([n \in 1..MaxLoaded |-> LoadedRows(n)], MaxLoaded, loaded)

RequiredStatus(op) == IF op = "start_sprint" THEN "Planned" ELSE "Active"

UpdatedSprint(op, sprint) ==
    IF op = "start_sprint"
    THEN [sprint EXCEPT !.status = "Active", !.start_date = Now]
    ELSE [sprint EXCEPT !.status = "Completed", !.end_date = Now]

SprintCall(op, sprint_id, updated_sprint, pc, result) ==
    [op |-> op, sprint_id |-> sprint_id, updated_sprint |-> updated_sprint,
     pc |-> pc, result |-> result]

\* create_sprint: the id is fresh, so no other call names the sprint between
\* the write to the table and the insertion in the map.
CreateSprint(save_ok) ==
    /\ Cardinality(DOMAIN sprint_rows \cup DOMAIN sprints) < MaxSprints
    /\ LET id == Cardinality(DOMAIN sprint_rows \cup DOMAIN sprints) + 1
           new_sprint == Sprint("Planned", None, None)
       IN  IF save_ok
           THEN /\ sprint_rows' = Extend(sprint_rows, id, new_sprint)
                /\ sprints' = Extend(sprints, id, new_sprint)
           ELSE UNCHANGED <<sprints, sprint_rows>>
    /\ UNCHANGED <<graphs, nodes, edges, next_node_id, next_edge_id, table_vars, sprint_calls,
                   delegated_task_mapping, agents, bus, cursor, task_results,
                   upstream_vars, sched_vars>>

\* delete_sprint removes the sprint from the map only.
DeleteSprint(sprint_id) ==
    /\ sprint_id \in DOMAIN sprints
    /\ sprints' = Without(sprints, sprint_id)
    /\ UNCHANGED <<graphs, nodes, edges, next_node_id, next_edge_id, table_vars, sprint_rows,
                   sprint_calls, delegated_task_mapping, agents, bus, cursor,
                   task_results, upstream_vars, sched_vars>>

\* First step of start_sprint / complete_sprint: the copy and the status check.
SprintRead(op, sprint_id) ==
    /\ Cardinality(sprint_calls) < MaxCalls
    /\ sprint_calls' = sprint_calls \cup
          {IF sprint_id \notin DOMAIN sprints
           THEN SprintCall(op, sprint_id, None, "returned", "NotFound")
           ELSE IF sprints[sprint_id].status # RequiredStatus(op)
           THEN SprintCall(op, sprint_id, None, "returned", "WrongStatus")
           ELSE SprintCall(op, sprint_id, Some(UpdatedSprint(op, sprints[sprint_id])),
                           "persist", "")}
    /\ UNCHANGED <<graphs, nodes, edges, next_node_id, next_edge_id, table_vars, sprints,
                   sprint_rows, delegated_task_mapping, agents, bus, cursor,
                   task_results, upstream_vars, sched_vars>>

\* Second step: persistence::save_sprint (INSERT OR REPLACE).
SprintPersist(call, save_ok) ==
    /\ call \in sprint_calls
    /\ call.pc = "persist"
    /\ IF save_ok
       THEN /\ sprint_rows' = Extend(sprint_rows, call.sprint_id, call.updated_sprint[1])
            /\ sprint_calls' = (sprint_calls \ {call}) \cup {[call EXCEPT !.pc = "insert"]}
       ELSE /\ sprint_rows' = sprint_rows
            /\ sprint_calls' = (sprint_calls \ {call}) \cup
                  {[call EXCEPT !.pc = "returned", !.result = "PersistenceError"]}
    /\ UNCHANGED <<graphs, nodes, edges, next_node_id, next_edge_id, table_vars, sprints,
                   delegated_task_mapping, agents, bus, cursor, task_results,
                   upstream_vars, sched_vars>>

\* Third step: sprints.insert under the write lock.
SprintInsert(call) ==
    /\ call \in sprint_calls
    /\ call.pc = "insert"
    /\ sprints' = Extend(sprints, call.sprint_id, call.updated_sprint[1])
    /\ sprint_calls' = (sprint_calls \ {call}) \cup
          {[call EXCEPT !.pc = "returned", !.result = "Ok"]}
    /\ UNCHANGED <<graphs, nodes, edges, next_node_id, next_edge_id, table_vars, sprint_rows,
                   delegated_task_mapping, agents, bus, cursor, task_results,
                   upstream_vars, sched_vars>>

\* The caller has the Result.
SprintReturn(call) ==
    /\ call \in sprint_calls
    /\ call.pc = "returned"
    /\ sprint_calls' = sprint_calls \ {call}
    /\ UNCHANGED <<graphs, nodes, edges, next_node_id, next_edge_id, table_vars, sprints,
                   sprint_rows, delegated_task_mapping, agents, bus, cursor,
                   task_results, upstream_vars, sched_vars>>

NextSprint ==
    \/ \E save_ok \in BOOLEAN : CreateSprint(save_ok)
    \/ \E sprint_id \in SprintIds : DeleteSprint(sprint_id)
    \/ \E op \in SprintOps, sprint_id \in SprintIds : SprintRead(op, sprint_id)
    \/ \E call \in sprint_calls, save_ok \in BOOLEAN : SprintPersist(call, save_ok)
    \/ \E call \in sprint_calls : SprintInsert(call)
    \/ \E call \in sprint_calls : SprintReturn(call)
    \/ \E g \in graphs, spec \in ApiSpecs, save_ok \in BOOLEAN : AddTaskNode(g, spec, save_ok)
    \/ \E g \in GraphIds, from \in NodeIds, to \in NodeIds, save_ok \in BOOLEAN :
          AddTaskEdge(g, from, to, save_ok)

SpecSprint == InitSprint /\ [][NextSprint]_vars

(***************************************************************************)
(* The scheduler, the result processor and the workers running side by     *)
(* side on a backlog of Writer and Researcher tasks, some with a retry     *)
(* policy; an assignment may wait on the bus behind another.               *)
(***************************************************************************)
RaceRows(n) ==
    {[NewTaskNode(DefaultGraph, TaskSpecification(role, Some(role), <<>>))
        EXCEPT !.status = st, !.retry_policy = rp] :
        role \in InfoRoles, st \in LoadedStatuses, rp \in LoadedPolicies}

InitRace == InitFrom([n \in 1..MaxQueued |-> RaceRows(n)], MaxQueued)

ResultMessages ==
    {TaskCompleted(a, t, d) : a \in DOMAIN agents, t \in DOMAIN nodes, d \in Contents}
    \cup {TaskFailed(a, None, t, a) : a \in DOMAIN agents, t \in DOMAIN nodes}

NextRace ==
    \/ SchedCollect
    \/ \E t \in tasks_to_schedule : ScheduleTaskWithin(t, BusCapacity)
    \/ RouterForward
    \/ RouterIgnore
    \/ ProcessResult
    \/ \E a \in DOMAIN agents : WriterReceive(a)
    \/ \E a \in DOMAIN agents : ResearcherReceive(a)
    \/ \E a \in DOMAIN agents : ResearcherFinish(a)
    \/ \E role \in InfoRoles, save_ok \in BOOLEAN :
          Cardinality(DOMAIN agents) < MaxWorkers /\ ExecuteAgentTask(role, save_ok)
    \/ \E msg \in ResultMessages : Publish(msg)

SpecRace == InitRace /\ [][NextRace]_vars

(***************************************************************************)
(* Restart: the process ends and CoreOrchestrator::new builds the state    *)
(* again from the tables.  Every loaded task goes to the graph named by    *)
(* its sprint_id, which no caller sets, so to the default graph; no edge   *)
(* is attached (see load_state_from_db); workers, bus and channels are new.*)
(***************************************************************************)
Restart ==
    /\ nodes' = [n \in DOMAIN task_rows |-> [task_rows[n] EXCEPT !.graph = DefaultGraph]]
    /\ graphs' = IF DOMAIN task_rows = {} THEN {} ELSE {DefaultGraph}
    /\ edges' = {}
    /\ sprints' = sprint_rows
    /\ sprint_calls' = {}
    /\ delegated_task_mapping' = <<>>
    /\ agents' = <<>>
    /\ bus' = <<>>
    /\ cursor' = [s \in {Orchestrator} |-> 0]
    /\ task_results' = <<>>
    /\ request_queue' = <<>>
    /\ request_receiver_alive' = RequestReceiverAlive
    /\ send_errors' = {}
    /\ sched_pc' = "idle"
    /\ tasks_to_schedule' = {}
    /\ UNCHANGED <<next_node_id, next_edge_id, table_vars, sprint_rows>>

NextRestart == Next \/ Restart

SpecRestart == Init /\ [][NextRestart]_vars

(***************************************************************************)
(* Properties.                                                             *)
(***************************************************************************)
Incoming(n) == {e \in edges : e.graph = nodes[n].graph /\ e.to_node_id = n}

SourceCompleted(e) ==
    /\ e.from_node_id \in GraphNodes(TGM, e.graph)
    /\ nodes[e.from_node_id].status = "Completed"

\* The result processor takes the pair at the head of the result channel, and
\* the pair is of this kind and names a node of some graph.
Handles(kind) ==
    /\ task_results # <<>>
    /\ Head(task_results).kind = kind
    /\ Head(task_results).task_id \in DOMAIN nodes
    /\ task_results' = Tail(task_results)

\* C1: a node in PendingDependencies all of whose incoming Dependency edges
\* come from Completed nodes (a root node has none) eventually becomes
\* ReadyToExecute.
C1_PendingBecomesReady ==
    \A n \in NodeIds :
        (/\ n \in DOMAIN nodes
         /\ nodes[n].status = "PendingDependencies"
         /\ \A e \in Incoming(n) : SourceCompleted(e))
        ~> (n \in DOMAIN nodes /\ nodes[n].status = "ReadyToExecute")

C3_SimpleWorkerCompletesTask ==
    \A n \in NodeIds, a \in WorkerIds :
        (/\ a \in DOMAIN agents
         /\ agents[a].role = "SimpleWorker"
         /\ agents[a].status \in {"Idle", "Ready"}
         /\ agents[a].pc = "recv"
         /\ n \in DOMAIN nodes
         /\ nodes[n].status = "ReadyToExecute"
         /\ nodes[n].task_spec.required_agent_role = Some("SimpleWorker")
         /\ nodes[n].task_spec.input_mappings = <<>>)
        ~> (/\ n \in DOMAIN nodes
            /\ nodes[n].status = "Completed"
            /\ Len(nodes[n].outputs) = 1
            /\ agents[a].status \in {"Idle", "Ready"}
            /\ agents[a].pc = "recv")

\* C4: no message a worker sends upstream is rejected: every upstream send is
\* accepted by the channel the router is to read it from.
C4_NoUpstreamSendRejected == send_errors = {}

\* C5: every node in Executing has an assigned agent.
C5_ExecutingHasAgent ==
    \A n \in DOMAIN nodes :
        nodes[n].status = "Executing" => nodes[n].assigned_agent_id # None

C5_Witness ==
    \E n \in DOMAIN nodes :
        nodes[n].status = "Executing" /\ nodes[n].assigned_agent_id \in {Some(a) : a \in DOMAIN agents}

\* C6: both endpoints of every edge are nodes of the edge's graph.
C6_EdgeEndpointsExist ==
    \A e \in edges :
        /\ e.from_node_id \in GraphNodes(TGM, e.graph)
        /\ e.to_node_id \in GraphNodes(TGM, e.graph)

\* C7: a node's retry_count is at most its max_retries (0 without a policy)
\* plus one.
C7_RetryCountBounded ==
    \A n \in DOMAIN nodes : nodes[n].retry_count <= max_retries(nodes[n]) + 1

C7_Witness ==
    \E n \in DOMAIN nodes :
        /\ nodes[n].status = "Failed"
        /\ nodes[n].retry_count >= 1
        /\ nodes[n].retry_count = max_retries(nodes[n])

C9_TaskCompletedHandling ==
    [][Handles("TaskCompleted") =>
          LET msg == Head(task_results)
          IN  /\ msg.task_id \in DOMAIN nodes'
              /\ nodes'[msg.task_id].status = "Completed"
              /\ nodes'[msg.task_id].outputs = <<msg.deliverable>>
              /\ nodes'[msg.task_id].error_message = None
              /\ nodes'[msg.task_id].retry_count = 0]_vars

C9_Witness ==
    \E n \in DOMAIN nodes :
        /\ nodes[n].status = "Completed"
        /\ Len(nodes[n].outputs) = 1
        /\ nodes[n].error_message = None

\* C10: handling TaskFailed for an existing node: with retry_count >=
\* max_retries (0 without a policy) the status becomes Failed and retry_count
\* stays; otherwise retry_count grows by one, the status becomes
\* ReadyToExecute and the error is stored.
C10_TaskFailedHandling ==
    [][Handles("TaskFailed") =>
          LET t == Head(task_results).task_id
          IN  /\ t \in DOMAIN nodes'
              /\ IF nodes[t].retry_count >= max_retries(nodes[t])
                 THEN /\ nodes'[t].status = "Failed"
                      /\ nodes'[t].retry_count = nodes[t].retry_count
                 ELSE /\ nodes'[t].retry_count = nodes[t].retry_count + 1
                      /\ nodes'[t].status = "ReadyToExecute"
                      /\ nodes'[t].error_message = Some("error")]_vars

C10_Witness ==
    \E n \in DOMAIN nodes :
        /\ nodes[n].status = "ReadyToExecute"
        /\ nodes[n].retry_count = 1
        /\ nodes[n].error_message = Some("error")

\* The router takes a message of this kind from the bus.
RouterTakes(kind) ==
    /\ HasMessage(Orchestrator)
    /\ NextMessage(Orchestrator).kind = kind
    /\ Router

\* C11: when the router handles a DelegateSubTask and adds the node and the
\* edge, the delegation map then holds new sub-task id -> delegating agent id.
C11_DelegationRecorded ==
    [][(RouterTakes("DelegateSubTask") /\ next_edge_id' = next_edge_id + 1) =>
          /\ next_node_id \in DOMAIN delegated_task_mapping'
          /\ delegated_task_mapping'[next_node_id] = NextMessage(Orchestrator).agent_id]_vars

\* C13: the validation sub-task a Coder delegated for its task, requiring a
\* Validator, is eventually assigned to a Validator, there being an idle one
\* (the first half of the claim: the parent is to complete after that).
C13_ValidationSubTaskScheduled ==
    \A sub \in NodeIds, c \in TeamIds, v \in TeamIds :
        (/\ sub \in DOMAIN nodes
         /\ nodes[sub].task_spec.required_agent_role = Some("Validator")
         /\ c \in DOMAIN agents /\ agents[c].role = "Coder"
         /\ \E e \in Incoming(sub) :
               /\ e.from_node_id \in DOMAIN nodes
               /\ nodes[e.from_node_id].assigned_agent_id = Some(c)
         /\ v \in DOMAIN agents /\ agents[v].role = "Validator"
         /\ agents[v].status \in {"Idle", "Ready"})
        ~> (/\ sub \in DOMAIN nodes
            /\ \E w \in DOMAIN agents :
                  agents[w].role = "Validator" /\ nodes[sub].assigned_agent_id = Some(w))

\* C14: every SubTasksGenerated message the router takes from the bus is put
\* on the result channel, as the pair the result processor will handle.
C14_SubTasksGeneratedForwarded ==
    [][RouterTakes("SubTasksGenerated") =>
          task_results' = Append(task_results, NextMessage(Orchestrator))]_vars

\* The result processor handles a SubTasksGenerated pair whose original task
\* is a node of some graph.
Decomposes == Handles("SubTasksGenerated") /\ ProcessDecomp

\* Every add of the batch succeeded: a node id was handed out for each
\* sub-task and an edge id for each declared edge.
EveryStepSucceeds ==
    LET msg == Head(task_results)
    IN  /\ next_node_id' = next_node_id + Len(msg.sub_tasks)
        /\ next_edge_id' = next_edge_id + Len(msg.sub_task_edges)

\* The id of the node created for temp_id, the batch starting at node id base.
NodeFor(sub_tasks, temp_id, base) ==
    base - 1 + CHOOSE i \in 1..Len(sub_tasks) : sub_tasks[i].temp_id = temp_id

\* C15: when a SubTasksGenerated pair is handled and every step succeeds, the
\* graph of the original node gains exactly one node per sub-task and exactly
\* one edge per declared edge, each from the node created for its from temp_id
\* to the node created for its to temp_id, and the original node is Completed
\* without an error message.
C15_DecompositionAdded ==
    [][(Decomposes /\ EveryStepSucceeds) =>
          LET msg == Head(task_results)
              g == nodes[msg.task_id].graph
              new_nodes == DOMAIN nodes' \ DOMAIN nodes
              new_edges == edges' \ edges
          IN  /\ DOMAIN nodes \subseteq DOMAIN nodes'
              /\ Cardinality(new_nodes) = Len(msg.sub_tasks)
              /\ \A i \in 1..Len(msg.sub_tasks) :
                    \E n \in new_nodes :
                       /\ nodes'[n].graph = g
                       /\ nodes'[n].task_spec = msg.sub_tasks[i].task_spec
                       /\ n = NodeFor(msg.sub_tasks, msg.sub_tasks[i].temp_id, next_node_id)
              /\ edges \subseteq edges'
              /\ Cardinality(new_edges) = Len(msg.sub_task_edges)
              /\ \A j \in 1..Len(msg.sub_task_edges) :
                    \E e \in new_edges :
                       /\ e.graph = g
                       /\ e.from_node_id = NodeFor(msg.sub_tasks,
                              msg.sub_task_edges[j].from_subtask_temp_id, next_node_id)
                       /\ e.to_node_id = NodeFor(msg.sub_tasks,
                              msg.sub_task_edges[j].to_subtask_temp_id, next_node_id)
              /\ nodes'[msg.task_id].status = "Completed"
              /\ nodes'[msg.task_id].error_message = None]_vars

\* A planning task was decomposed into two sub-tasks with both edges.
C15_Witness ==
    \E o \in DOMAIN nodes, x \in DOMAIN nodes, y \in DOMAIN nodes :
        /\ nodes[o].status = "Completed"
        /\ nodes[o].error_message = None
        /\ nodes[o].assigned_agent_id # None
        /\ x # y /\ x > o /\ y > o
        /\ \E e1 \in edges, e2 \in edges :
              /\ e1.from_node_id = x /\ e1.to_node_id = y
              /\ e2.from_node_id = y /\ e2.to_node_id = x

\* C16: when a SubTasksGenerated pair is handled and some step fails, the
\* graph afterwards holds no node and no edge it did not hold before, and the
\* original node is Failed with "Subtask decomposition failed".
C16_FailedDecompositionRolledBack ==
    [][(Decomposes /\ ~EveryStepSucceeds) =>
          LET msg == Head(task_results)
          IN  /\ DOMAIN nodes' = DOMAIN nodes
              /\ edges' = edges
              /\ nodes'[msg.task_id].status = "Failed"
              /\ nodes'[msg.task_id].error_message =
                     Some("Subtask decomposition failed")]_vars

\* C17: when the router handles a DelegateSubTask and a step fails (no graph
\* holds the parent task, the node is not added, or the edge is not added, so
\* that no edge id is handed out), it publishes a TaskFailed for the parent
\* task id whose receiver is the delegating agent.
C17_DelegationFailurePublished ==
    [][(RouterTakes("DelegateSubTask") /\ next_edge_id' = next_edge_id) =>
          LET msg == NextMessage(Orchestrator)
          IN  /\ bus' # <<>>
              /\ bus'[Len(bus')].kind = "TaskFailed"
              /\ bus'[Len(bus')].sender_id = Orchestrator
              /\ bus'[Len(bus')].task_id = msg.task_id
              /\ bus'[Len(bus')].receiver_id = Some(msg.sender_id)]_vars

\* The failure of a delegation is on the bus, addressed to an agent.
C17_Witness ==
    \E i \in 1..Len(bus), a \in DOMAIN agents :
        /\ bus[i].kind = "TaskFailed"
        /\ bus[i].sender_id = Orchestrator
        /\ bus[i].receiver_id = Some(a)

\* TaskNode.created_at: node ids are handed out in creation order.
created_at(n) == n

\* The scheduler's loop takes candidate t and hands it to a worker.
Assigns(t) ==
    /\ t \in tasks_to_schedule
    /\ tasks_to_schedule' = tasks_to_schedule \ {t}
    /\ t.id \in DOMAIN nodes
    /\ nodes[t.id].status = "ReadyToExecute"
    /\ nodes'[t.id].status = "Executing"

\* The role a worker must have to be given a task of this specification.
RequiredRole(task_spec) ==
    IF task_spec.required_agent_role # None
    THEN task_spec.required_agent_role[1]
    ELSE task_spec.required_role

Outranks(u, t) ==
    \/ nodes[u].priority > nodes[t].priority
    \/ nodes[u].priority = nodes[t].priority /\ created_at(u) < created_at(t)

\* C18: within a scheduling cycle a candidate is handed to a worker only when
\* no other candidate of the cycle that is still ReadyToExecute and requires
\* the same role has a higher priority, or the same priority and an earlier
\* creation time.
C18_PriorityOrder ==
    [][\A t \in tasks_to_schedule, u \in tasks_to_schedule :
          (/\ Assigns(t)
           /\ u.id # t.id
           /\ u.id \in DOMAIN nodes
           /\ nodes[u.id].status = "ReadyToExecute"
           /\ RequiredRole(u.task_spec) = RequiredRole(t.task_spec))
          => ~Outranks(u.id, t.id)]_vars

\* C19: the worker a node is assigned to has the role of the node's
\* required_agent_role when that is present, and of its required_role otherwise.
C19_AssignedRoleMatches ==
    [][\A t \in tasks_to_schedule :
          Assigns(t) =>
             \E a \in DOMAIN agents :
                /\ nodes'[t.id].assigned_agent_id = Some(a)
                /\ agents[a].role = RequiredRole(t.task_spec)]_vars

\* The scheduler's loop takes candidate t, resolves its inputs and asks
\* find_available_agent for a worker of t's required_agent_role.
AsksWorkerFor(t) ==
    /\ t \in tasks_to_schedule
    /\ tasks_to_schedule' = tasks_to_schedule \ {t}
    /\ t.id \in DOMAIN nodes
    /\ t.task_spec.input_mappings = <<>>

Available(a, role_opt) ==
    /\ agents[a].status \in {"Idle", "Ready"}
    /\ role_opt # None => agents[a].role = role_opt[1]

\* C20: the worker find_available_agent returns is Idle or Ready and, a role
\* being given, has that role (so it is never Busy, waiting or failed); it
\* returns none only when no worker is so.
C20_FindAvailableAgent ==
    [][\A t \in tasks_to_schedule :
          AsksWorkerFor(t) =>
             LET role_opt == t.task_spec.required_agent_role
             IN  IF nodes'[t.id].assigned_agent_id # nodes[t.id].assigned_agent_id
                 THEN \E a \in DOMAIN agents :
                         /\ nodes'[t.id].assigned_agent_id = Some(a)
                         /\ Available(a, role_opt)
                 ELSE \A a \in DOMAIN agents : ~Available(a, role_opt)]_vars

\* A worker was returned for one task and is Busy with it, its lock free,
\* while the cycle holds another candidate that requires its role.
C20_Witness ==
    \E a \in DOMAIN agents, n \in DOMAIN nodes, t \in tasks_to_schedule :
        /\ nodes[n].assigned_agent_id = Some(a)
        /\ agents[a].status = "Busy"
        /\ agents[a].pc = "recv"
        /\ t.id # n
        /\ t.task_spec.required_agent_role = Some(agents[a].role)

\* The scheduler's loop takes candidate t, a node of its graph, and does not
\* resolve its input mappings: a producer is no node of the graph, or none of
\* its outputs is the deliverable asked for.
InputBindingFails(t) ==
    /\ sched_pc = "loop"
    /\ t \in tasks_to_schedule
    /\ tasks_to_schedule' = tasks_to_schedule \ {t}
    /\ t.id \in DOMAIN nodes
    /\ \E i \in 1..Len(t.task_spec.input_mappings) :
          LET mapping == t.task_spec.input_mappings[i]
              src == mapping.source_task_id
          IN  \/ src \notin DOMAIN nodes
              \/ nodes[src].graph # t.graph
              \/ \A j \in 1..Len(nodes[src].outputs) :
                    nodes[src].outputs[j] # mapping.deliverable_key

\* C21: when the scheduler processes a node one of whose input mappings has
\* no producer node or no matching deliverable, the node becomes Failed with
\* the error "Input mapping failed", no TaskAssignment is published, and the
\* node is not set up for a retry whatever its retry policy (its retry_count
\* stays).
C21_InputMappingFailure ==
    [][\A t \in tasks_to_schedule :
          InputBindingFails(t) =>
             /\ nodes'[t.id].status = "Failed"
             /\ nodes'[t.id].error_message = Some("Input mapping failed")
             /\ nodes'[t.id].retry_count = nodes[t.id].retry_count
             /\ nodes'[t.id].assigned_agent_id = nodes[t.id].assigned_agent_id
             /\ bus' = bus]_vars

\* A node with a retry policy failed on its input mapping while an idle
\* worker of its role was there.
C21_Witness ==
    \E n \in DOMAIN nodes, a \in DOMAIN agents :
        /\ nodes[n].status = "Failed"
        /\ nodes[n].error_message = Some("Input mapping failed")
        /\ nodes[n].retry_policy # None
        /\ agents[a].role = "Planner"
        /\ agents[a].status = "Idle"

\* The scheduler's loop takes candidate t, resolves its input mappings, and
\* writes to the node or to the bus.
SchedulerActsOn(t) ==
    /\ sched_pc = "loop"
    /\ t \in tasks_to_schedule
    /\ tasks_to_schedule' = tasks_to_schedule \ {t}
    /\ t.id \in DOMAIN nodes
    /\ ~InputBindingFails(t)
    /\ nodes'[t.id] # nodes[t.id] \/ bus' # bus

\* The TaskInputs of a specification all of whose mappings resolve.
ResolvedInputs(task_spec) ==
    [i \in 1..Len(task_spec.input_mappings) |->
        [data |-> task_spec.input_mappings[i].deliverable_key,
         source_deliverable_ids |-> <<task_spec.input_mappings[i].source_task_id>>]]

\* C22: when the scheduler assigns a node, one step sets the node's inputs to
\* the resolved inputs, its status to Executing and its assigned_agent_id to
\* the chosen worker, and publishes exactly one TaskAssignment, for that node,
\* whose receiver is that worker.  (A receiver of the bus is held by the router
\* for as long as the program runs, so the publication does not fail.)
C22_AssignmentIsAtomic ==
    [][\A t \in tasks_to_schedule :
          SchedulerActsOn(t) =>
             \E a \in DOMAIN agents :
                /\ nodes'[t.id].inputs = ResolvedInputs(t.task_spec)
                /\ nodes'[t.id].status = "Executing"
                /\ nodes'[t.id].assigned_agent_id = Some(a)
                /\ Len(bus') = Len(bus) + 1
                /\ SubSeq(bus', 1, Len(bus)) = bus
                /\ bus'[Len(bus')].kind = "TaskAssignment"
                /\ bus'[Len(bus')].task_id = t.id
                /\ bus'[Len(bus')].receiver_id = Some(a)
                /\ bus'[Len(bus')].sender_id = Orchestrator]_vars

\* A node with an input mapping is Executing with its resolved input, and its
\* TaskAssignment is on the bus.
C22_Witness ==
    \E n \in DOMAIN nodes, i \in 1..Len(bus) :
        /\ nodes[n].status = "Executing"
        /\ nodes[n].inputs # <<>>
        /\ nodes[n].inputs = ResolvedInputs(nodes[n].task_spec)
        /\ bus[i].kind = "TaskAssignment"
        /\ bus[i].task_id = n
        /\ bus[i].receiver_id = nodes[n].assigned_agent_id

C24_WriterRequestEmitted ==
    [][\A w \in TeamIds :
          (/\ w \in DOMAIN agents
           /\ agents[w].role = "Writer"
           /\ HasMessage(w)
           /\ NextMessage(w).kind = "TaskAssignment"
           /\ NextMessage(w).receiver_id = Some(w)
           /\ nodes[NextMessage(w).task_id].task_spec.needs_research
           /\ \E r \in DOMAIN agents :
                 agents[r].role = "Researcher" /\ agents[r].status \in {"Idle", "Ready"}
           /\ WriterReceive(w))
          => /\ agents'[w].status = "WaitingForInformation"
             /\ \E i \in 1..Len(request_queue') : request_queue'[i] = <<w, "RequestInformation">>
             /\ <<w, "RequestInformation">> \notin send_errors']_vars

\* C25: a worker of any role that receives a TaskAssignment addressed to it
\* while Idle becomes Busy, or at least is processing the task or has reported
\* on it, so that the node is not left Executing with nobody working on it.
C25_AssignmentStartsWork ==
    [][\A a \in TeamIds :
          (/\ a \in DOMAIN agents
           /\ agents[a].status = "Idle"
           /\ HasMessage(a)
           /\ NextMessage(a).kind = "TaskAssignment"
           /\ NextMessage(a).receiver_id = Some(a)
           /\ WorkerReceive(a))
          => \/ agents'[a].status = "Busy"
             \/ agents'[a].pc # "recv"
             \/ <<request_queue', send_errors'>> # <<request_queue, send_errors>>]_vars

\* C26: a worker of any role whose receiver observes that the broadcast channel
\* is closed leaves its run loop.
C26_WorkersStopWhenClosed ==
    \A a \in WorkerIds :
        (a \in DOMAIN agents /\ agents[a].pc = "recv" /\ ObservesClosed(a))
        ~> (a \in DOMAIN agents /\ agents[a].pc = "stopped")

\* C27: a worker of any role whose receiver reports that it lagged keeps
\* running, and next receives the oldest message published after the gap.
C27_LaggedWorkerContinues ==
    [][\A a \in WorkerIds :
          (a \in DOMAIN agents /\ Lagged(a) /\ RecvLagged(a))
          => /\ agents'[a].pc = "recv"
             /\ a \in DOMAIN cursor'
             /\ cursor'[a] = 0]_vars

FailedSave ==
    \/ \E g \in graphs, spec \in ApiSpecs : AddTaskNode(g, spec, FALSE)
    \/ \E g \in GraphIds, from \in NodeIds, to \in NodeIds : AddTaskEdge(g, from, to, FALSE)
    \/ CreateSprint(FALSE)
    \/ \E call \in sprint_calls : SprintPersist(call, FALSE)

\* C30: when the persistence write of add_node, add_edge, create_sprint,
\* start_sprint or complete_sprint fails, the call returns the error and the
\* graphs and the sprints in memory are as they were.
C30_FailedSaveChangesNothing ==
    [][FailedSave =>
          /\ <<graphs', nodes', edges', sprints'>> = <<graphs, nodes, edges, sprints>>
          /\ \A call \in sprint_calls' \ sprint_calls :
                call.pc = "returned" /\ call.result = "PersistenceError"]_vars

\* start_sprint has returned the persistence error and the sprint is Planned.
C30_Witness ==
    \E call \in sprint_calls :
        /\ call.op = "start_sprint"
        /\ call.result = "PersistenceError"
        /\ call.sprint_id \in DOMAIN sprints
        /\ sprints[call.sprint_id].status = "Planned"
        /\ sprint_rows[call.sprint_id].status = "Planned"

\* C31: a restart gives back the graph: the same nodes, each with the status,
\* outputs and retry_count it had, and the same edges.
C31_GraphSurvivesRestart ==
    [][Restart =>
          /\ DOMAIN nodes' = DOMAIN nodes
          /\ \A n \in DOMAIN nodes \cap DOMAIN nodes' :
                /\ nodes'[n].status = nodes[n].status
                /\ nodes'[n].outputs = nodes[n].outputs
                /\ nodes'[n].retry_count = nodes[n].retry_count
          /\ {<<e.id, e.from_node_id, e.to_node_id>> : e \in edges'}
                = {<<e.id, e.from_node_id, e.to_node_id>> : e \in edges}]_vars

\* No registered worker is Idle or Ready with the role the clone t asks for.
NoWorkerFor(t) ==
    \A a \in DOMAIN agents :
        \/ agents[a].status \notin {"Idle", "Ready"}
        \/ /\ t.task_spec.required_agent_role # None
           /\ agents[a].role # t.task_spec.required_agent_role[1]

\* C32: when the scheduler's iteration for a candidate whose inputs resolve
\* finds no available worker, no node changes (status, inputs and
\* assigned_agent_id stay), nothing is published, and the cycle goes on with
\* the remaining candidates.
C32_NoWorkerLeavesNode ==
    [][\A t \in tasks_to_schedule :
          ( /\ sched_pc = "loop"
            /\ tasks_to_schedule' = tasks_to_schedule \ {t}
            /\ ResolveInputs(TGM, t.graph, t.task_spec.input_mappings).ok
            /\ NoWorkerFor(t) )
          => /\ nodes' = nodes
             /\ bus' = bus
             /\ sched_pc' = IF tasks_to_schedule' = {} THEN "idle" ELSE "loop"]_vars

\* A finished cycle gave one node to the lone worker, which became Busy, and
\* then passed over the other node of the same role: it is still
\* ReadyToExecute and unassigned.
C32_Witness ==
    /\ sched_pc = "idle"
    /\ \E n \in DOMAIN nodes, e \in DOMAIN nodes, a \in DOMAIN agents :
          /\ agents[a].status = "Busy"
          /\ nodes[e].status = "Executing"
          /\ nodes[e].assigned_agent_id = Some(a)
          /\ nodes[n].status = "ReadyToExecute"
          /\ nodes[n].assigned_agent_id = None
          /\ nodes[n].inputs = <<>>
          /\ nodes[n].task_spec.required_agent_role = Some(agents[a].role)
          /\ bus = <<>>

\* C33: a Writer taking a ReturnInformation uses it (process_task runs again on
\* the saved task with the payload held: a report is sent, not a second
\* request, and the Writer ends Idle with nothing saved) only if it is
\* WaitingForInformation and its current task is original_task_id; otherwise
\* its status, saved task and stored information stay and nothing is sent.
C33_WriterReturnInformation ==
    [][\A w \in TeamIds :
          (/\ w \in DOMAIN agents
           /\ agents[w].role = "Writer"
           /\ HasMessage(w)
           /\ NextMessage(w).kind = "ReturnInformation"
           /\ WriterReceive(w))
          => IF /\ agents[w].status = "WaitingForInformation"
                /\ agents[w].current_task = Some(NextMessage(w).task_id)
             THEN /\ agents'[w].status = "Idle"
                  /\ agents'[w].current_task = None
                  /\ agents'[w].received_information = FALSE
                  /\ \E kind \in {"TaskCompleted", "TaskFailed"} :
                        \/ <<w, kind>> \in send_errors'
                        \/ \E i \in 1..Len(request_queue') : request_queue'[i] = <<w, kind>>
             ELSE /\ agents'[w] = agents[w]
                  /\ request_queue' = request_queue
                  /\ send_errors' = send_errors]_vars

\* A Writer has asked for information and later reported the draft although
\* every assigned task needs research: it used a ReturnInformation.
C33_Witness ==
    \E w \in DOMAIN agents :
        /\ agents[w].role = "Writer"
        /\ agents[w].status = "Idle"
        /\ agents[w].current_task = None
        /\ <<w, "RequestInformation">> \in send_errors
        /\ <<w, "TaskCompleted">> \in send_errors
        /\ \E t \in DOMAIN nodes : nodes[t].status = "Executing"
        /\ \A t \in DOMAIN nodes :
              nodes[t].status = "Executing" => nodes[t].task_spec.needs_research

\* C34: the router forwards a RequestInformation or ReturnInformation once:
\* taking its own forwarded copy (sender_id "orchestrator") it publishes
\* nothing.
C34_ForwardedOnce ==
    [][\A kind \in {"RequestInformation", "ReturnInformation"} :
          (RouterTakes(kind) /\ NextMessage(Orchestrator).sender_id = Orchestrator)
          => bus' = AfterReceive(Orchestrator, <<>>).bus]_vars

\* C35: a worker that takes a TaskAssignment whose receiver_id names another
\* worker does not run process_task for it: its own state stays and it sends
\* nothing upstream.
C35_AssignmentOnlyForReceiver ==
    [][\A a \in TeamIds :
          (/\ a \in DOMAIN agents
           /\ HasMessage(a)
           /\ NextMessage(a).kind = "TaskAssignment"
           /\ NextMessage(a).receiver_id # Some(a)
           /\ WorkerReceive(a))
          => /\ agents'[a] = agents[a]
             /\ request_queue' = request_queue
             /\ send_errors' = send_errors]_vars

\* C37: an iteration of the scheduler's loop writes a node (Executing, or
\* Failed when its inputs cannot be bound) only if the node is still
\* ReadyToExecute when it writes.
C37_WritesOnlyReadyNodes ==
    [][\A n \in DOMAIN nodes \cap DOMAIN nodes' :
          (/\ sched_pc = "loop"
           /\ tasks_to_schedule' # tasks_to_schedule
           /\ nodes'[n] # nodes[n])
          => nodes[n].status = "ReadyToExecute"]_vars

\* C36: no worker has two unfinished assignments: at most one Executing node
\* names a given worker in assigned_agent_id.
C36_OneTaskPerWorker ==
    \A a \in DOMAIN agents :
        Cardinality({n \in DOMAIN nodes :
                        /\ nodes[n].status = "Executing"
                        /\ nodes[n].assigned_agent_id = Some(a)}) <= 1

\* C38: the result processor handling a TaskCompleted or TaskFailed for a
\* node that is already Completed or Failed leaves the node's status, outputs
\* and retry_count as they are.
C38_FinalStatusAbsorbing ==
    [][(/\ task_results # <<>>
        /\ task_results' = Tail(task_results)
        /\ Head(task_results).kind \in {"TaskCompleted", "TaskFailed"}
        /\ Head(task_results).task_id \in DOMAIN nodes
        /\ nodes[Head(task_results).task_id].status \in {"Completed", "Failed"})
       => LET n == Head(task_results).task_id
          IN  /\ nodes'[n].status = nodes[n].status
              /\ nodes'[n].outputs = nodes[n].outputs
              /\ nodes'[n].retry_count = nodes[n].retry_count]_vars

\* C39: no worker ever waits for its own components lock, and so the
\* scheduler is never stuck in find_available_agent.
C39_NoSelfDeadlock ==
    /\ \A a \in DOMAIN agents : ~Deadlocked(a)
    /\ sched_pc # "blocked"

\* C40: a worker whose process_task has returned, its report sent, is Idle or
\* Ready when it goes back to its receiver, so that it can be given the task
\* again.
C40_FinishedWorkerAvailable ==
    [][\A a \in WorkerIds :
          (/\ a \in DOMAIN agents
           /\ a \in DOMAIN agents'
           /\ agents[a].pc = "processing"
           /\ agents'[a].pc = "recv")
          => agents'[a].status \in {"Idle", "Ready"}]_vars

====
